---- MODULE Spec2Model ----
(***************************************************************************)
(* Model of the data-fair catalog plugin's resource acquisition            *)
(* (src/lib/download.ts): getResource, getMetaData, downloadResource,      *)
(* downloadResourceFile, downloadResourceLines and extractNextPageUrl,     *)
(* and of the plugin's prepare step.                                       *)
(*                                                                         *)
(* Strings (URLs, link headers, CSV bytes) are sequences of one-character  *)
(* strings, so that split, trim, slice and indexOf are computed character  *)
(* by character as the code computes them.  An optional value (undefined   *)
(* or present) is a sequence of length 0 or 1.                             *)
(***************************************************************************)
EXTENDS Integers, Sequences, FiniteSets, TLC

\* ------------------------------------------------------------------ bounds
\* Largest number of chunks the server sends over one whole transfer.
MaxChunks == 2
\* Largest number of pages the server serves in row streaming.
MaxPages == 2
\* Largest number of filters in an import configuration (query model).
MaxFilters == 2
\* Largest number of fields in the schema of a metadata response
\* (normalization model).
MaxFields == 2

\* Length of the mask that stands for a stored API key.
MaskLength == 25

\* ------------------------------------------------------- optional values
Undefined == <<>>
Some(x) == <<x>>
IsDefined(o) == Len(o) = 1
Get(o) == o[1]

\* ---------------------------------------------------------------- strings
NL == "\n"
SP == " "

RECURSIVE Flatten(_)
\* Concatenation of a sequence of strings.
Flatten(ss) == IF ss = <<>> THEN <<>> ELSE Head(ss) \o Flatten(Tail(ss))

RECURSIVE Join(_, _)
\* Array.prototype.join: the elements separated by sep.
Join(ss, sep) ==
  IF ss = <<>> THEN <<>>
  ELSE IF Len(ss) = 1 THEN ss[1]
  ELSE ss[1] \o sep \o Join(Tail(ss), sep)

RECURSIVE SplitAcc(_, _, _, _, _)
SplitAcc(s, sep, i, cur, acc) ==
  IF i > Len(s) THEN Append(acc, cur)
  ELSE IF s[i] = sep THEN SplitAcc(s, sep, i + 1, <<>>, Append(acc, cur))
  ELSE SplitAcc(s, sep, i + 1, Append(cur, s[i]), acc)

\* String.prototype.split on a one-character separator.
Split(s, sep) == SplitAcc(s, sep, 1, <<>>, <<>>)

RECURSIVE TrimStart(_)
TrimStart(s) == IF s # <<>> /\ Head(s) = SP THEN TrimStart(Tail(s)) ELSE s

RECURSIVE TrimEnd(_)
TrimEnd(s) ==
  IF s # <<>> /\ s[Len(s)] = SP THEN TrimEnd(SubSeq(s, 1, Len(s) - 1)) ELSE s

\* String.prototype.trim.
Trim(s) == TrimEnd(TrimStart(s))

\* s.slice(1, -1): the string without its first and last character.
SliceInner(s) == SubSeq(s, 2, Len(s) - 1)

\* Buffer.prototype.indexOf of a byte: 1-based position, 0 when absent
\* (the code's -1).
IndexOf(s, c) ==
  IF \E i \in 1..Len(s) : s[i] = c
  THEN CHOOSE i \in 1..Len(s) : s[i] = c /\ \A j \in 1..(i - 1) : s[j] # c
  ELSE 0

\* ------------------------------------------------- the acquisition context
VARIABLES
  active             \* the acquisition whose event is being handled: 1 or 2

\* catalogConfig.url, resourceId and tmpDir of the context under study.
CatalogUrl == <<"h", "t", "t", "p", ":", "/", "/", "c">>
\* The resource ids of the two acquisitions of a process; ResourceId is
\* the id of the acquisition whose event is being handled.
ResourceIds == <<(<<"r", "1">>), (<<"r", "2">>)>>
ResourceId == ResourceIds[active]
TmpDir == <<"/", "t", "m", "p">>

ApiDatasets == <<"/", "d", "a", "t", "a", "-", "f", "a", "i", "r", "/", "a", "p", "i", "/", "v", "1", "/", "d", "a", "t", "a", "s", "e", "t", "s", "/">>
FullSuffix == <<"/", "f", "u", "l", "l">>
LinesSuffix == <<"/", "l", "i", "n", "e", "s", "?", "f", "o", "r", "m", "a", "t", "=", "c", "s", "v", "&", "s", "i", "z", "e", "=", "5", "0", "0", "0">>
SelectParam == <<"&", "s", "e", "l", "e", "c", "t", "=">>
RelNext == <<"r", "e", "l", "=", "n", "e", "x", "t">>
UndefinedText == <<"u", "n", "d", "e", "f", "i", "n", "e", "d">>

TypeIn == <<"i", "n">>
TypeNin == <<"n", "i", "n">>
TypeStarts == <<"s", "t", "a", "r", "t", "s">>
TypeGte == <<"g", "t", "e">>
TypeLte == <<"l", "t", "e">>
TypeEq == <<"e", "q">>

\* Faulty variant of filePathFor: one fixed file name for every resource.
filePathShared(id) == TmpDir \o <<"/", "d", "a", "t", "a", ".", "c", "s", "v">>

\* join(context.tmpDir, `${context.resourceId}.csv`)
filePathFor(id) == TmpDir \o <<"/">> \o id \o <<".", "c", "s", "v">>
FilePathOf == filePathFor(ResourceId)

\* --------------------------------------------------------------- messages
\* An error message is the sequence of its fragments; a template literal
\* concatenates them.  (Accented letters of the source are written plain.)
MetaPrefix == "Erreur lors de la recuperation de la resource DataFair. "
DownloadPrefix == "Erreur pendant le telechargement du fichier: "
DownloadLogPrefix == "Erreur pendant le telechargement du fichier : "
FetchStatusPrefix == "Error while fetching data: HTTP "

\* A thrown value: an Error with its message, or another value with its
\* String() conversion.
Err(m) == [isError |-> TRUE, text |-> m]
NonErr(s) == [isError |-> FALSE, text |-> s]

\* `error instanceof Error ? error.message : String(error)`
messageOf(e) == IF e.isError THEN e.text ELSE e.text

\* ------------------------------------------------------------ environment
\* What axios.get settles with: a response (status, statusText, body) or a
\* rejection.  The client rejects or resolves an error status according to
\* its validateStatus; both outcomes are modelled.
StatusText(s) == CASE s = 200 -> "OK" [] s = 204 -> "No Content" [] OTHER -> "Not Found"
StatusStr(s) == CASE s = 200 -> "200" [] s = 204 -> "204" [] OTHER -> "404"
Statuses == {200, 204, 404}
AxiosErrors == {Err(<<"Request failed with status code 404">>), Err(<<"Network connection failed">>)}
StreamErrors == {Err(<<"aborted">>), NonErr(<<"ECONNRESET">>)}
SinkErrors == {Err(<<"ENOSPC: no space left on device">>)}
LogErrors == {Err(<<"log task failed">>)}

\* Bodies of the metadata response.
FieldExt == [key |-> <<"_", "A", " ", "b">>, ext |-> TRUE]
FieldPlain == [key |-> <<"f", "2">>, ext |-> FALSE]
BodyFile ==
  [kind |-> "object", file |-> Some([size |-> Some(10)]), storage |-> Some([size |-> Some(20)]),
   originalFile |-> Undefined, schema |-> Some(<<>>)]
BodyFileNoSize ==
  [kind |-> "object", file |-> Some([size |-> Undefined]), storage |-> Undefined,
   originalFile |-> Some([size |-> Some(30)]), schema |-> Undefined]
BodyStorage ==
  [kind |-> "object", file |-> Undefined, storage |-> Some([size |-> Some(20)]),
   originalFile |-> Undefined, schema |-> Some(<<FieldExt, FieldPlain>>)]
MetaBodies ==
  {[kind |-> "string"], [kind |-> "null"], BodyFile, BodyFileNoSize, BodyStorage}

\* `${res.data}` in the HTTP error message.
DataText(b) ==
  CASE b.kind = "string" -> "invalid json" [] b.kind = "null" -> "null" [] OTHER -> "[object Object]"

\* Import configurations of the acquisitions under study.
FieldA == [key |-> <<"a">>]
FieldB == [key |-> <<"b">>]
FilterGte == [key |-> <<"y">>, type |-> TypeGte, value |-> Some(<<"2", "0", "2", "0">>), values |-> Undefined]
FieldChoices == {Undefined, Some(<<>>), Some(<<FieldA, FieldB>>)}
FilterChoices == {Undefined, Some(<<>>), Some(<<FilterGte>>)}
ImportConfigs == [fields : FieldChoices, filters : FilterChoices]
ApiKeys == {Undefined, Some(<<"k", "1">>)}
\* Every import configuration without credentials, and two with an API key.
Contexts ==
  {[importConfig |-> c, secrets |-> Undefined] : c \in ImportConfigs}
  \cup {[importConfig |-> [fields |-> f, filters |-> f], secrets |-> Some(<<"k", "1">>)] :
          f \in {Undefined}}
  \cup {[importConfig |-> [fields |-> Some(<<FieldA, FieldB>>), filters |-> Undefined],
          secrets |-> Some(<<"k", "1">>)]}

\* Chunks of a response body: bytes are the newline and one other byte.
Chunks == {<<"x">>, <<NL, "x">>, <<"x", NL, "x", NL>>}

\* Link headers the server sends: a list of <url>; rel=value entries.
Entry(u, r) == [url |-> u, rel |-> r]
LinkText(entries) ==
  Join([i \in 1..Len(entries) |->
          <<"<">> \o entries[i].url \o <<">", ";", " ", "r", "e", "l", "=">> \o entries[i].rel],
       <<",", " ">>)
NextCursor == <<"n", "?", "a", "f", "t", "e", "r", "=", "1">>
SelectCursor == <<"n", "?", "s", "e", "l", "e", "c", "t", "=", "a", ",", "b">>
PrevUrl == <<"p">>
RelNextName == <<"n", "e", "x", "t">>
RelPrevName == <<"p", "r", "e", "v">>
LinkLists ==
  { <<>>,
    <<Entry(PrevUrl, RelPrevName)>>,
    <<Entry(NextCursor, RelNextName)>>,
    <<Entry(PrevUrl, RelPrevName), Entry(NextCursor, RelNextName)>>,
    <<Entry(SelectCursor, RelNextName)>> }

RECURSIVE ServedNext(_)
\* The server's own view: the URL of the first entry whose relation is next.
ServedNext(entries) ==
  IF entries = <<>> THEN Undefined
  ELSE IF Head(entries).rel = RelNextName THEN Some(Head(entries).url)
  ELSE ServedNext(Tail(entries))

\* response.headers.link: absent when the server sends no entry.
LinkHeaderOf(entries) == IF entries = <<>> THEN Undefined ELSE Some(LinkText(entries))
\* A server without entries may also send the header with an empty value.
LinkHeadersOf(entries) ==
  {LinkHeaderOf(entries)} \cup (IF entries = <<>> THEN {Some(<<>>)} ELSE {})

\* ---------------------------------------------------------- query building
\* Template-literal conversion of an optional string: undefined prints as
\* the text "undefined".
Interpolate(o) == IF IsDefined(o) THEN Get(o) ELSE UndefinedText

\* `${filter.values?.join('","')}`
JoinedValues(f) ==
  IF IsDefined(f.values) THEN Join(Get(f.values), <<"\"", ",", "\"">>)
  ELSE UndefinedText

\* Faulty variant of filterClause: the values of in and nin are joined by
\* commas inside one pair of quotes.
filterClauseOneQuote(f) ==
  IF f.type \in {TypeIn, TypeNin}
  THEN <<"&">> \o f.key \o <<"_">> \o f.type \o <<"=", "\"">> \o Join(Get(f.values), <<",">>) \o <<"\"">>
  ELSE <<"&">> \o f.key \o <<"_">> \o f.type \o <<"=">> \o Interpolate(f.value)

\* The switch of downloadResourceLines: what one filter appends to url.
filterClause(f) ==
  IF f.type \in {TypeIn, TypeNin}
  THEN <<"&">> \o f.key \o <<"_">> \o f.type \o <<"=", "\"">> \o JoinedValues(f) \o <<"\"">>
  ELSE IF f.type \in {TypeStarts, TypeGte, TypeLte}
  THEN <<"&">> \o f.key \o <<"_">> \o f.type \o <<"=">> \o Interpolate(f.value)
  ELSE <<>>

RECURSIVE appendFilters(_, _)
\* importConfig.filters.forEach(...): the clauses appended in input order.
appendFilters(url, filters) ==
  IF filters = <<>> THEN url
  ELSE appendFilters(url \o filterClause(Head(filters)), Tail(filters))

\* `if (importConfig.fields) url += '&select=' + ...`: an array, even an
\* empty one, is truthy.
selectClause(fields) ==
  IF IsDefined(fields)
  THEN SelectParam \o Join([i \in 1..Len(Get(fields)) |-> Get(fields)[i].key], <<",">>)
  ELSE <<>>

\* Faulty variant of configAfterQuery: an absent list is replaced by an
\* empty one in the caller's configuration before it is read.
configAfterQueryDefaulting(cfg) ==
  [fields |-> IF IsDefined(cfg.fields) THEN cfg.fields ELSE Some(<<>>),
   filters |-> IF IsDefined(cfg.filters) THEN cfg.filters ELSE Some(<<>>)]

\* The caller's import configuration once downloadResourceLines has built
\* its URL: map, join and forEach read the two arrays and write neither.
configAfterQuery(cfg) == cfg

\* The first-page URL built by downloadResourceLines.
firstPageUrl(importConfig) ==
  LET base == CatalogUrl \o ApiDatasets \o ResourceId \o LinesSuffix
      withSelect == base \o selectClause(importConfig.fields)
  IN  IF IsDefined(importConfig.filters)
      THEN appendFilters(withSelect, Get(importConfig.filters))
      ELSE withSelect

\* --------------------------------------------------- next-page discovery
NoPage == [kind |-> "null"]
PageUrl(u) == [kind |-> "url", url |-> u]
Thrown == [kind |-> "throw"]

RECURSIVE scanLinksLast(_)
\* Faulty variant of scanLinks: the entries are scanned from the last one,
\* so the last entry whose relation is next wins.
scanLinksLast(links) ==
  IF links = <<>> THEN NoPage
  ELSE LET parts == Split(links[Len(links)], ";")
       IN  IF Len(parts) < 2 THEN Thrown
           ELSE IF Trim(parts[2]) = RelNext THEN PageUrl(SliceInner(Trim(parts[1])))
           ELSE scanLinksLast(SubSeq(links, 1, Len(links) - 1))

RECURSIVE scanLinks(_)
\* The for loop of extractNextPageUrl over the split entries.  relPart is
\* undefined when the entry holds no ';', and relPart.trim() then throws a
\* TypeError.
scanLinks(links) ==
  IF links = <<>> THEN NoPage
  ELSE LET parts == Split(Head(links), ";")
           url == SliceInner(Trim(parts[1]))
       IN  IF Len(parts) < 2 THEN Thrown
           ELSE IF Trim(parts[2]) = RelNext THEN PageUrl(url)
           ELSE scanLinks(Tail(links))

\* extractNextPageUrl(linkHeader): linkHeader is an optional string.
extractNextPageUrl(linkHeader) ==
  IF ~IsDefined(linkHeader) \/ Get(linkHeader) = <<>> THEN NoPage
  ELSE scanLinks(Split(Get(linkHeader), ","))

\* `while (url)`: a non-null, non-empty url.
Truthy(r) == r.kind = "url" /\ r.url # <<>>

\* ------------------------------------------------- metadata normalization
AlnumChars == {"a", "b", "f", "A", "B", "0", "1", "2"}
toLowerCase(c) == CASE c = "A" -> "a" [] c = "B" -> "b" [] OTHER -> c

RECURSIVE slugChars(_)
\* slugify's per-character pass with replacement '_' and strict: the
\* replacement character becomes a space, letters, digits and spaces are
\* kept, every other character is removed.
slugChars(s) ==
  IF s = <<>> THEN <<>>
  ELSE LET c == Head(s)
           kept == IF c = "_" THEN <<SP>>
                   ELSE IF c \in AlnumChars \/ c = SP THEN <<c>>
                   ELSE <<>>
       IN  kept \o slugChars(Tail(s))

RECURSIVE collapseSpaces(_)
\* slug.replace(/\s+/g, '_')
collapseSpaces(s) ==
  IF s = <<>> THEN <<>>
  ELSE IF Head(s) = SP
       THEN <<"_">> \o collapseSpaces(TrimStart(s))
       ELSE <<Head(s)>> \o collapseSpaces(Tail(s))

\* slugify.default(s, { lower: true, strict: true, replacement: '_' })
slugify(s) ==
  LET t == collapseSpaces(Trim(slugChars(s)))
  IN  [i \in 1..Len(t) |-> toLowerCase(t[i])]

\* field.key.replace(/^_/, '')
stripLeadingUnderscore(k) == IF k # <<>> /\ Head(k) = "_" THEN Tail(k) ELSE k

\* Faulty variant of normalizeField: the leading underscore is removed but
\* the key is not slugified and the marker stays.
normalizeFieldKeepMarker(field) ==
  IF field.ext
  THEN [field EXCEPT !.key = stripLeadingUnderscore(field.key)]
  ELSE field

\* The map callback of getMetaData: a field with the x-extension marker
\* gets a slug key and loses the marker.
normalizeField(field) ==
  IF field.ext
  THEN [field EXCEPT !.key = slugify(stripLeadingUnderscore(field.key)), !.ext = FALSE]
  ELSE field

\* Faulty variant of normalizeSchema: the fields with the marker are
\* filtered out instead of rewritten.
normalizeSchemaFiltering(schema) ==
  LET fields == IF IsDefined(schema) THEN Get(schema) ELSE <<>>
  IN  SelectSeq(fields, LAMBDA f : ~f.ext)

\* (dataset.schema ?? []).map(...)
normalizeSchema(schema) ==
  LET fields == IF IsDefined(schema) THEN Get(schema) ELSE <<>>
  IN  [i \in 1..Len(fields) |-> normalizeField(fields[i])]

\* dataset.file?.size ?? dataset.storage?.size ?? dataset.originalFile?.size
sizeOf(o) == IF IsDefined(o) THEN Get(o).size ELSE Undefined

\* Faulty variant of resolveSize: the sources are chained with || , so a
\* size of zero is skipped like an undefined one.
resolveSizeTruthy(dataset) ==
  LET truthy(o) == IsDefined(o) /\ Get(o) # 0
  IN  IF truthy(sizeOf(dataset.file)) THEN sizeOf(dataset.file)
      ELSE IF truthy(sizeOf(dataset.storage)) THEN sizeOf(dataset.storage)
      ELSE sizeOf(dataset.originalFile)

resolveSize(dataset) ==
  IF IsDefined(sizeOf(dataset.file)) THEN sizeOf(dataset.file)
  ELSE IF IsDefined(sizeOf(dataset.storage)) THEN sizeOf(dataset.storage)
  ELSE sizeOf(dataset.originalFile)

\* Faulty variant of newResource: the output path is filled in before any
\* transfer.
newResourceWithPath(dataset) ==
  [id |-> ResourceId,
   size |-> resolveSize(dataset),
   schema |-> normalizeSchema(dataset.schema),
   filePath |-> FilePathOf]

\* The Resource literal of getMetaData (the descriptive fields copied
\* verbatim from the dataset are left out).
newResource(dataset) ==
  [id |-> ResourceId,
   size |-> resolveSize(dataset),
   schema |-> normalizeSchema(dataset.schema),
   filePath |-> <<>>]

\* Faulty variant of hasBulkFile: a bulk file is assumed whenever a size
\* was resolved.
hasBulkFileBySize(dataset) == IsDefined(resolveSize(dataset))

\* `!!dataset.file`
hasBulkFile(dataset) == IsDefined(dataset.file)

\* Faulty variant of statusIs200: every status below 300 passes.
statusIsSuccess(s) == s < 300

\* `res.status !== 200` is the failure test of all three requests.
statusIs200(s) == s = 200

\* What the code after the metadata request does with a response of
\* status s and body b: the error it throws, or the resource and the file
\* flag it returns.  Line 47 reads and assigns dataset.schema outside the
\* try block: null has no properties and a string takes none (the module
\* is strict), so both raise a TypeError that nothing wraps.
getMetaDataResult(s, b) ==
  IF ~statusIs200(s)
  THEN [ok |-> FALSE,
        error |-> Err(<<MetaPrefix, "HTTP error : ", StatusStr(s), ", ", DataText(b)>>)]
  ELSE IF b.kind = "null"
  THEN [ok |-> FALSE, error |-> Err(<<"TypeError: Cannot read properties of null (reading 'schema')">>)]
  ELSE IF b.kind = "string"
  THEN [ok |-> FALSE, error |-> Err(<<"TypeError: Cannot create property 'schema' on string">>)]
  ELSE [ok |-> TRUE, resource |-> newResource(b), file |-> hasBulkFile(b)]

\* Faulty variant of metaDataError: the cause is rethrown as it is.
metaDataErrorBare(e) == Err(messageOf(e))

\* The catch of getMetaData for a rejected request.
metaDataError(e) == Err(<<MetaPrefix>> \o messageOf(e))

\* ------------------------------------------------------ strategy selection
\* `x?.length` as a truth value: a present, non-empty array.
hasLength(o) == IsDefined(o) /\ Len(Get(o)) > 0

\* Faulty variant of useBulkFile: the filters are not looked at.
useBulkFileIgnoringFilters(hasFile, cfg) == hasFile /\ ~hasLength(cfg.fields)

\* The condition of downloadResource.
useBulkFile(hasFile, cfg) == hasFile /\ ~hasLength(cfg.fields) /\ ~hasLength(cfg.filters)

\* Faulty variant of downloadError: the cause's message is dropped.
downloadErrorNoCause(e) == Err(<<DownloadPrefix>>)

\* The error thrown by the catch of downloadResource, and the text logged.
downloadError(e) == Err(<<DownloadPrefix>> \o messageOf(e))
downloadLogText(e) == <<DownloadLogPrefix>> \o messageOf(e)

\* The error thrown for a transfer response whose status is not 200.
fetchStatusError(s) == Err(<<FetchStatusPrefix, StatusText(s)>>)

\* Faulty variant of apiKeyHeader: the key is never sent.
apiKeyHeaderNone(key) == Undefined

\* `secrets.apiKey ? { 'x-apiKey': secrets.apiKey } : undefined`
apiKeyHeader(key) == IF IsDefined(key) /\ Get(key) # <<>> THEN key ELSE Undefined

MetaUrl == CatalogUrl \o ApiDatasets \o ResourceId
FullUrl == CatalogUrl \o ApiDatasets \o ResourceId \o FullSuffix
Request(u, key) == [url |-> u, apiKey |-> apiKeyHeader(key)]

\* ------------------------------------------------------- header stripping
\* Faulty variant of transform: every chunk that holds a newline is cut
\* after its first newline, also once the header has been skipped.
transformEveryChunk(chunk, skipped) ==
  LET headerEndIndex == IndexOf(chunk, NL)
  IN  IF headerEndIndex # 0
      THEN [chunk |-> SubSeq(chunk, headerEndIndex + 1, Len(chunk)), skippedHeader |-> TRUE]
      ELSE [chunk |-> chunk, skippedHeader |-> skipped]

\* The transform of a page after the first: until a chunk holds a newline
\* the chunk is pushed as it is; the chunk holding the first newline is cut
\* after it; later chunks pass.
transform(chunk, skipped) ==
  LET headerEndIndex == IndexOf(chunk, NL)
  IN  IF ~skipped /\ headerEndIndex # 0
      THEN [chunk |-> SubSeq(chunk, headerEndIndex + 1, Len(chunk)), skippedHeader |-> TRUE]
      ELSE [chunk |-> chunk, skippedHeader |-> skipped]

\* ------------------------------------------------------------------ state
VARIABLES
  importConfig,      \* context.importConfig: [fields, filters], each optional
  secrets,           \* context.secrets.apiKey, optional
  pc,                \* where getResource stands
  requests,          \* the GETs issued so far, in order
  responses,         \* what each settled GET settled with
  resource,          \* the Resource built by getMetaData, optional
  file,              \* the file flag returned by getMetaData
  dataset,           \* the dataset local of getMetaData as the response gave it, optional
  strategy,          \* "none", "bulk" or "lines"
  taskEvents,        \* the log.task calls
  logErrors,         \* the log.error calls
  cause,             \* the error caught by downloadResource, optional
  error,             \* the error getResource rejected with, optional
  returned,          \* the resource getResource resolved with, optional
  disk,              \* the output file: [created, exists, content]
  unlink,            \* fs.unlink: "none", "pending", "done", "failed"
  writer,            \* the write stream: "none", "open", "ending", "finished", "closed", "destroyed", "errored"
  source,            \* response.data: "none", "flowing", "ended", "errored", "destroyed"
  url,               \* the url local of downloadResourceLines
  isFirstChunk,      \* the isFirstChunk local
  skippedHeader,     \* the skippedHeader local of the current page's transform
  downloaded,        \* the byte counter
  pendingLogPromise, \* TRUE while a progress notification is in flight
  progress,          \* the values passed to log.progress, in order
  settled,           \* number of log.progress promises that have settled
  pageNo,            \* number of pages whose body has started
  pageRaw,           \* the bytes the current page's source has emitted
  pageSunk,          \* the bytes of the current page appended to the sink
  served,            \* per ended page, the next cursor the server named (optional)
  chunksSent,        \* number of chunks the server has sent
  peer,              \* the other acquisition of the process, suspended: its variables, optional
  tmpFiles,          \* the files of tmpDir at the paths of the other acquisitions
  catalogConfig      \* the catalogConfig of the prepare context: [url, apiKey (optional)]

pairVars == <<active, peer, tmpFiles>>
ctxVars == <<importConfig, secrets>>
httpVars == <<requests, responses>>
metaVars == <<resource, file, dataset>>
driverVars == <<strategy, taskEvents>>
outcomeVars == <<logErrors, cause, error, returned>>
fileVars == <<disk, unlink, writer>>
loopVars == <<url, isFirstChunk, skippedHeader>>
progressVars == <<downloaded, pendingLogPromise, progress, settled>>
pageVars == <<pageNo, pageRaw, pageSunk, served>>
vars == <<catalogConfig, pairVars, ctxVars, pc, httpVars, metaVars, driverVars, outcomeVars, fileVars, source,
          loopVars, progressVars, pageVars, chunksSent>>

NoDisk == [created |-> FALSE, exists |-> FALSE, content |-> <<>>]
\* A process with one acquisition: no other file of tmpDir is looked at.
NoFiles == [p \in {} |-> NoDisk]

Init ==
  /\ catalogConfig = [url |-> CatalogUrl, apiKey |-> Undefined]
  /\ active = 1
  /\ peer = Undefined
  /\ tmpFiles = NoFiles
  /\ \E c \in Contexts :
       /\ importConfig = c.importConfig
       /\ secrets = c.secrets
  /\ pc = "idle"
  /\ requests = <<>>
  /\ responses = <<>>
  /\ resource = Undefined
  /\ file = FALSE
  /\ dataset = Undefined
  /\ strategy = "none"
  /\ taskEvents = <<>>
  /\ logErrors = <<>>
  /\ cause = Undefined
  /\ error = Undefined
  /\ returned = Undefined
  /\ disk = NoDisk
  /\ unlink = "none"
  /\ writer = "none"
  /\ source = "none"
  /\ url = NoPage
  /\ isFirstChunk = TRUE
  /\ skippedHeader = FALSE
  /\ downloaded = 0
  /\ pendingLogPromise = FALSE
  /\ progress = <<>>
  /\ settled = 0
  /\ pageNo = 0
  /\ pageRaw = <<>>
  /\ pageSunk = <<>>
  /\ served = <<>>
  /\ chunksSent = 0

\* What a request settled with: the status and the kind of body of a
\* response, or a rejection.
Resolved(s, body) == [kind |-> "resolved", status |-> s, body |-> body]
Rejected == [kind |-> "rejected", status |-> 0, body |-> "none"]

\* ------------------------------------------------------ shared fragments
\* The catch of downloadResource: log once, throw the wrapped error;
\* getResource rejects with it.
Catch(e) ==
  /\ logErrors' = Append(logErrors, downloadLogText(e))
  /\ cause' = Some(e)
  /\ error' = Some(downloadError(e))
  /\ returned' = returned
  /\ pc' = "rejected"

\* downloadResource returns filePath; getResource stores it and returns.
Return ==
  /\ resource' = Some([Get(resource) EXCEPT !.filePath = FilePathOf])
  /\ returned' = resource'
  /\ pc' = "resolved"
  /\ UNCHANGED <<file, dataset, logErrors, cause, error>>

\* fs.createWriteStream(path): the file is created, or emptied.
Created == [created |-> TRUE, exists |-> TRUE, content |-> <<>>]

\* Faulty variant of OnData: the notification carries the counter as it
\* was before the chunk was counted.
OnDataStale(chunk) ==
  /\ downloaded' = downloaded + Len(chunk)
  /\ IF ~pendingLogPromise
     THEN /\ pendingLogPromise' = TRUE
          /\ progress' = Append(progress, downloaded)
     ELSE UNCHANGED <<pendingLogPromise, progress>>
  /\ settled' = settled

\* Faulty variant of OnData: every chunk dispatches a notification, also
\* while one is in flight.
OnDataAlways(chunk) ==
  /\ downloaded' = downloaded + Len(chunk)
  /\ pendingLogPromise' = TRUE
  /\ progress' = Append(progress, downloaded + Len(chunk))
  /\ settled' = settled

\* Faulty variant of OnData: a chunk that arrives while a notification is
\* in flight is not counted.
OnDataGated(chunk) ==
  /\ IF ~pendingLogPromise
     THEN /\ downloaded' = downloaded + Len(chunk)
          /\ pendingLogPromise' = TRUE
          /\ progress' = Append(progress, downloaded + Len(chunk))
     ELSE UNCHANGED <<downloaded, pendingLogPromise, progress>>
  /\ settled' = settled

\* The 'data' listener of both transfers: count the chunk, and dispatch a
\* progress notification unless one is in flight.
OnData(chunk) ==
  /\ downloaded' = downloaded + Len(chunk)
  /\ IF ~pendingLogPromise
     THEN /\ pendingLogPromise' = TRUE
          /\ progress' = Append(progress, downloaded + Len(chunk))
     ELSE UNCHANGED <<pendingLogPromise, progress>>
  /\ settled' = settled

\* Faulty variant of slotAfterSettle: the slot is cleared by a then, which
\* a rejected notification skips.
slotAfterSettleThen(ok) == ~ok

\* The slot once a notification has settled: .catch(...) turns a rejection
\* into a fulfilment and .finally(() => { slot = null }) runs either way.
slotAfterSettle(ok) == FALSE

\* Faulty variant of Written: the chunk is put in front of what the file
\* holds.
WrittenFirst(chunk) == disk' = [disk EXCEPT !.content = chunk \o @]

\* pipe: the chunk is written to the sink.
Written(chunk) == disk' = [disk EXCEPT !.content = @ \o chunk]

\* --------------------------------------------------------------- actions
\* getResource up to the metadata request of getMetaData.
getResource ==
  /\ pc = "idle"
  /\ requests' = Append(requests, Request(MetaUrl, secrets))
  /\ pc' = "metaWait"
  /\ UNCHANGED <<catalogConfig, pairVars, ctxVars, responses, metaVars, driverVars, outcomeVars, fileVars, source,
                 loopVars, progressVars, pageVars, chunksSent>>

\* The metadata request is rejected: the catch of getMetaData rethrows.
getMetaDataRejected ==
  /\ pc = "metaWait"
  /\ \E e \in AxiosErrors :
       /\ responses' = Append(responses, Rejected)
       /\ error' = Some(metaDataError(e))
       /\ pc' = "rejected"
  /\ UNCHANGED <<catalogConfig, pairVars, ctxVars, requests, metaVars, driverVars, logErrors, cause, returned,
                 fileVars, source, loopVars, progressVars, pageVars, chunksSent>>

\* The metadata request resolves with one of the given bodies: the rest of
\* getMetaData.
getMetaDataOf(bodies) ==
  /\ pc = "metaWait"
  /\ \E s \in Statuses, b \in bodies :
       LET r == getMetaDataResult(s, b)
       IN  /\ responses' = Append(responses, Resolved(s, b.kind))
           /\ dataset' = IF statusIs200(s) THEN Some(b) ELSE dataset
           /\ IF r.ok
              THEN /\ resource' = Some(r.resource)
                   /\ file' = r.file
                   /\ pc' = "driver"
                   /\ error' = error
              ELSE /\ error' = Some(r.error)
                   /\ pc' = "rejected"
                   /\ UNCHANGED <<resource, file>>
  /\ UNCHANGED <<catalogConfig, pairVars, ctxVars, requests, driverVars, logErrors, cause, returned,
                 fileVars, source, loopVars, progressVars, pageVars, chunksSent>>

getMetaData == getMetaDataOf(MetaBodies)

\* Faulty variant of downloadResource: the row path passes the resolved
\* size as well, and a size of zero is passed as it is.
downloadResourceSized ==
  /\ pc = "driver"
  /\ LET bulk == useBulkFile(file, importConfig)
     IN  /\ strategy' = IF bulk THEN "bulk" ELSE "lines"
         /\ taskEvents' = Append(taskEvents,
              [label |-> IF bulk THEN "[file]" ELSE "[lines]", total |-> Get(resource).size])
  /\ pc' = "taskWait"
  /\ UNCHANGED <<catalogConfig, pairVars, ctxVars, httpVars, metaVars, outcomeVars, fileVars, source,
                 loopVars, progressVars, pageVars, chunksSent>>

\* downloadResource up to the awaited log.task call.
downloadResource ==
  /\ pc = "driver"
  /\ LET bulk == useBulkFile(file, importConfig)
         size == Get(resource).size
     IN  /\ strategy' = IF bulk THEN "bulk" ELSE "lines"
         /\ taskEvents' = Append(taskEvents,
              [label |-> IF bulk THEN "[file]" ELSE "[lines]",
               \* res.size || NaN: an absent or zero size gives NaN
               total |-> IF bulk /\ IsDefined(size) /\ Get(size) # 0 THEN size ELSE Undefined])
  /\ pc' = "taskWait"
  /\ UNCHANGED <<catalogConfig, pairVars, ctxVars, httpVars, metaVars, outcomeVars, fileVars, source,
                 loopVars, progressVars, pageVars, chunksSent>>

\* log.task rejects: the await throws inside the try of downloadResource.
taskRejected ==
  /\ pc = "taskWait"
  /\ \E e \in LogErrors : Catch(e)
  /\ UNCHANGED <<catalogConfig, pairVars, ctxVars, httpVars, metaVars, driverVars, fileVars, source,
                 loopVars, progressVars, pageVars, chunksSent>>

\* downloadResourceFile up to its request.
downloadResourceFile ==
  /\ pc = "taskWait"
  /\ strategy = "bulk"
  /\ requests' = Append(requests, Request(FullUrl, secrets))
  /\ pc' = "bulkWait"
  /\ UNCHANGED <<catalogConfig, pairVars, ctxVars, responses, metaVars, driverVars, outcomeVars, fileVars, source,
                 loopVars, progressVars, pageVars, chunksSent>>

\* The bulk request is rejected: downloadResourceFile throws.
bulkRejected ==
  /\ pc = "bulkWait"
  /\ \E e \in AxiosErrors :
       /\ responses' = Append(responses, Rejected)
       /\ Catch(e)
  /\ UNCHANGED <<catalogConfig, pairVars, ctxVars, requests, metaVars, driverVars, fileVars, source,
                 loopVars, progressVars, pageVars, chunksSent>>

\* The bulk request resolves: the status check, then the write stream is
\* created and the response piped into it.
bulkResponse ==
  /\ pc = "bulkWait"
  /\ \E s \in Statuses :
       /\ responses' = Append(responses, Resolved(s, "stream"))
       /\ IF statusIs200(s)
          THEN /\ disk' = Created
               /\ writer' = "open"
               /\ source' = "flowing"
               /\ pc' = "bulkBody"
               /\ UNCHANGED <<outcomeVars, unlink>>
          ELSE /\ Catch(fetchStatusError(s))
               /\ UNCHANGED <<fileVars, source>>
  /\ UNCHANGED <<catalogConfig, pairVars, ctxVars, requests, metaVars, driverVars, loopVars, progressVars,
                 pageVars, chunksSent>>

\* A chunk of the bulk body: the 'data' listener and the pipe.
bulkData ==
  /\ pc = "bulkBody"
  /\ source = "flowing"
  /\ writer = "open"
  /\ chunksSent < MaxChunks
  /\ \E chunk \in Chunks :
       /\ OnData(chunk)
       /\ Written(chunk)
  /\ chunksSent' = chunksSent + 1
  /\ UNCHANGED <<catalogConfig, pairVars, ctxVars, pc, httpVars, metaVars, driverVars, outcomeVars, unlink, writer,
                 source, loopVars, pageVars>>

\* Faulty variant of bulkEnd: the promise is resolved when the source
\* ends, before the write stream has flushed.
bulkEndResolving ==
  /\ pc = "bulkBody"
  /\ source = "flowing"
  /\ writer = "open"
  /\ source' = "ended"
  /\ writer' = "ending"
  /\ Return
  /\ UNCHANGED <<catalogConfig, pairVars, ctxVars, httpVars, driverVars, disk, unlink,
                 loopVars, progressVars, pageVars, chunksSent>>

\* The bulk body ends: the pipe ends the write stream.
bulkEnd ==
  /\ pc = "bulkBody"
  /\ source = "flowing"
  /\ writer = "open"
  /\ source' = "ended"
  /\ writer' = "ending"
  /\ UNCHANGED <<catalogConfig, pairVars, ctxVars, pc, httpVars, metaVars, driverVars, outcomeVars, disk, unlink,
                 loopVars, progressVars, pageVars, chunksSent>>

\* 'finish' of the write stream: close it and resolve.
bulkFinish ==
  /\ pc = "bulkBody"
  /\ writer = "ending"
  /\ writer' = "closed"
  /\ Return
  /\ UNCHANGED <<catalogConfig, pairVars, ctxVars, httpVars, driverVars, disk, unlink, source,
                 loopVars, progressVars, pageVars, chunksSent>>

\* Faulty variant of bulkSourceError: the deletion is awaited, the call
\* rejects once the file is gone.
bulkSourceErrorAwaited ==
  /\ pc = "bulkBody"
  /\ source = "flowing"
  /\ \E e \in StreamErrors : Catch(e)
  /\ source' = "errored"
  /\ writer' = "destroyed"
  /\ unlink' = "done"
  /\ disk' = [disk EXCEPT !.exists = FALSE]
  /\ UNCHANGED <<catalogConfig, pairVars, ctxVars, httpVars, metaVars, driverVars,
                 loopVars, progressVars, pageVars, chunksSent>>

\* 'error' of the bulk response: destroy the sink, start the deletion
\* without waiting for it, reject.
bulkSourceError ==
  /\ pc = "bulkBody"
  /\ source = "flowing"
  /\ \E e \in StreamErrors : Catch(e)
  /\ source' = "errored"
  /\ writer' = "destroyed"
  /\ unlink' = "pending"
  /\ UNCHANGED <<catalogConfig, pairVars, ctxVars, httpVars, metaVars, driverVars, disk,
                 loopVars, progressVars, pageVars, chunksSent>>

\* 'error' of the bulk write stream: destroy the source, start the
\* deletion, reject.
bulkSinkError ==
  /\ pc = "bulkBody"
  /\ writer \in {"open", "ending"}
  /\ \E e \in SinkErrors : Catch(e)
  /\ source' = "destroyed"
  /\ writer' = "errored"
  /\ unlink' = "pending"
  /\ UNCHANGED <<catalogConfig, pairVars, ctxVars, httpVars, metaVars, driverVars, disk,
                 loopVars, progressVars, pageVars, chunksSent>>

\* The callback of fs.unlink: the file is gone, or the deletion failed and
\* the empty callback ignores it.
unlinkDone ==
  /\ unlink = "pending"
  /\ \E ok \in BOOLEAN :
       IF ok
       THEN /\ unlink' = "done"
            /\ disk' = [disk EXCEPT !.exists = FALSE]
       ELSE /\ unlink' = "failed"
            /\ disk' = disk
  /\ UNCHANGED <<catalogConfig, pairVars, ctxVars, pc, httpVars, metaVars, driverVars, outcomeVars, writer, source,
                 loopVars, progressVars, pageVars, chunksSent>>

\* A progress notification in flight settles, fulfilled (ok) or rejected:
\* catch swallows the rejection and finally clears the slot.
progressSettled ==
  /\ settled < Len(progress)
  /\ pc \notin {"uncaught"}
  /\ \E ok \in BOOLEAN : pendingLogPromise' = slotAfterSettle(ok)
  /\ settled' = settled + 1
  /\ UNCHANGED <<catalogConfig, pairVars, ctxVars, pc, httpVars, metaVars, driverVars, outcomeVars, fileVars, source,
                 loopVars, downloaded, progress, pageVars, chunksSent>>

\* downloadResourceLines up to its first request: the url is built, the
\* write stream created, and the loop entered.
downloadResourceLines ==
  /\ pc = "taskWait"
  /\ strategy = "lines"
  /\ url' = PageUrl(firstPageUrl(importConfig))
  /\ disk' = Created
  /\ writer' = "open"
  /\ requests' = Append(requests, Request(firstPageUrl(importConfig), secrets))
  /\ importConfig' = configAfterQuery(importConfig)
  /\ pc' = "pageWait"
  /\ UNCHANGED <<catalogConfig, pairVars, secrets, responses, metaVars, driverVars, outcomeVars, unlink, source,
                 isFirstChunk, skippedHeader, progressVars, pageVars, chunksSent>>

\* A page request is rejected: downloadResourceLines throws out of the loop.
pageRejected ==
  /\ pc = "pageWait"
  /\ \E e \in AxiosErrors :
       /\ responses' = Append(responses, Rejected)
       /\ Catch(e)
  /\ UNCHANGED <<catalogConfig, pairVars, ctxVars, requests, metaVars, driverVars, fileVars, source,
                 loopVars, progressVars, pageVars, chunksSent>>

\* A page request resolves: the status check, then the page's pipeline
\* (with a fresh transform after the first page) is set up.
pageResponse ==
  /\ pc = "pageWait"
  /\ \E s \in Statuses :
       /\ responses' = Append(responses, Resolved(s, "stream"))
       /\ IF statusIs200(s)
          THEN /\ source' = "flowing"
               /\ skippedHeader' = FALSE
               /\ pageNo' = pageNo + 1
               /\ pageRaw' = <<>>
               /\ pageSunk' = <<>>
               /\ pc' = "pageBody"
               /\ UNCHANGED <<outcomeVars, served>>
          ELSE /\ Catch(fetchStatusError(s))
               /\ UNCHANGED <<source, skippedHeader, pageVars>>
  /\ UNCHANGED <<catalogConfig, pairVars, ctxVars, requests, metaVars, driverVars, fileVars, url, isFirstChunk,
                 progressVars, chunksSent>>

\* A chunk of a page body: through the transform after the first page,
\* then the 'data' listener and the pipe.  An empty chunk pushed by the
\* transform is not emitted.
pageData ==
  /\ pc = "pageBody"
  /\ source = "flowing"
  /\ writer = "open"
  /\ chunksSent < MaxChunks
  /\ \E chunk \in Chunks :
       LET t == IF isFirstChunk THEN [chunk |-> chunk, skippedHeader |-> skippedHeader]
                ELSE transform(chunk, skippedHeader)
       IN  /\ skippedHeader' = t.skippedHeader
           /\ pageRaw' = pageRaw \o chunk
           /\ pageSunk' = pageSunk \o t.chunk
           /\ IF t.chunk # <<>>
              THEN OnData(t.chunk) /\ Written(t.chunk)
              ELSE UNCHANGED <<progressVars, disk>>
  /\ chunksSent' = chunksSent + 1
  /\ UNCHANGED <<catalogConfig, pairVars, ctxVars, pc, httpVars, metaVars, driverVars, outcomeVars, unlink, writer,
                 source, url, isFirstChunk, pageNo, served>>

\* Faulty variant of pageEndOf: the pipe is made without end: false, so
\* the end of every page ends the write stream.
pageEndOfEnding(lists, limit) ==
  /\ pc = "pageBody"
  /\ source = "flowing"
  /\ \E entries \in lists :
       /\ IsDefined(ServedNext(entries)) => pageNo < limit
       /\ \E linkHeader \in LinkHeadersOf(entries) :
          LET next == extractNextPageUrl(linkHeader)
          IN  /\ served' = Append(served, ServedNext(entries))
              /\ source' = "ended"
              /\ writer' = IF writer = "open" THEN "ending" ELSE writer
              /\ IF next = Thrown
                 THEN /\ pc' = "uncaught"
                      /\ UNCHANGED <<requests, metaVars, outcomeVars, url, isFirstChunk>>
                 ELSE /\ url' = next
                      /\ isFirstChunk' = FALSE
                      /\ IF Truthy(next)
                         THEN /\ requests' = Append(requests, Request(next.url, secrets))
                              /\ pc' = "pageWait"
                              /\ UNCHANGED <<metaVars, outcomeVars>>
                         ELSE /\ Return
                              /\ requests' = requests
  /\ UNCHANGED <<catalogConfig, pairVars, ctxVars, responses, driverVars, disk, unlink, skippedHeader,
                 progressVars, pageNo, pageRaw, pageSunk, chunksSent>>

\* 'end' of a page: the next url is read from the link header; the loop
\* requests it, or ends the write stream and returns.  An exception of
\* extractNextPageUrl is thrown inside the listener, where nothing catches
\* it.  The response carries one of the given lists of entries; the server
\* names a next cursor on fewer than limit pages.
pageEndOf(lists, limit) ==
  /\ pc = "pageBody"
  /\ source = "flowing"
  /\ \E entries \in lists :
       /\ IsDefined(ServedNext(entries)) => pageNo < limit
       /\ \E linkHeader \in LinkHeadersOf(entries) :
          LET next == extractNextPageUrl(linkHeader)
          IN  /\ served' = Append(served, ServedNext(entries))
              /\ source' = "ended"
              /\ IF next = Thrown
                 THEN /\ pc' = "uncaught"
                      /\ UNCHANGED <<requests, metaVars, outcomeVars, writer, url, isFirstChunk>>
                 ELSE /\ url' = next
                      /\ isFirstChunk' = FALSE
                      /\ IF Truthy(next)
                         THEN /\ requests' = Append(requests, Request(next.url, secrets))
                              /\ pc' = "pageWait"
                              /\ UNCHANGED <<metaVars, outcomeVars, writer>>
                         ELSE /\ writer' = IF writer = "open" THEN "ending" ELSE writer
                              /\ Return
                              /\ requests' = requests
  /\ UNCHANGED <<catalogConfig, pairVars, ctxVars, responses, driverVars, disk, unlink, skippedHeader,
                 progressVars, pageNo, pageRaw, pageSunk, chunksSent>>

pageEnd == pageEndOf(LinkLists, MaxPages)

\* 'error' of a page's response.  On the first page the listener is on the
\* response itself: close the writer and reject.  On a later page the
\* listener is on the transform, which a pipe does not hand the error to:
\* the page's promise never settles, or the error is unhandled when the
\* response has no other listener.
pageSourceError ==
  /\ pc = "pageBody"
  /\ source = "flowing"
  /\ source' = "errored"
  /\ IF isFirstChunk
     THEN /\ \E e \in StreamErrors : Catch(e)
          /\ writer' = "closed"
     ELSE /\ \E outcome \in {"hung", "uncaught"} : pc' = outcome
          /\ UNCHANGED <<outcomeVars, writer>>
  /\ UNCHANGED <<catalogConfig, pairVars, ctxVars, httpVars, metaVars, driverVars, disk, unlink,
                 loopVars, progressVars, pageVars, chunksSent>>

\* 'error' of the shared write stream in row streaming: it has no
\* listener, so the error is an uncaught exception.
pageSinkError ==
  /\ pc \in {"pageWait", "pageBody"}
  /\ writer = "open"
  /\ writer' = "errored"
  /\ pc' = "uncaught"
  /\ UNCHANGED <<catalogConfig, pairVars, ctxVars, httpVars, metaVars, driverVars, outcomeVars, disk, unlink, source,
                 loopVars, progressVars, pageVars, chunksSent>>

\* 'finish' of the write stream ended by downloadResourceLines.
writerFinish ==
  /\ strategy = "lines"
  /\ writer = "ending"
  /\ writer' = "finished"
  /\ UNCHANGED <<catalogConfig, pairVars, ctxVars, pc, httpVars, metaVars, driverVars, outcomeVars, disk, unlink,
                 source, loopVars, progressVars, pageVars, chunksSent>>

Next ==
  \/ getResource
  \/ getMetaDataRejected
  \/ getMetaData
  \/ downloadResource
  \/ taskRejected
  \/ downloadResourceFile
  \/ bulkRejected
  \/ bulkResponse
  \/ bulkData
  \/ bulkEnd
  \/ bulkFinish
  \/ bulkSourceError
  \/ bulkSinkError
  \/ unlinkDone
  \/ progressSettled
  \/ downloadResourceLines
  \/ pageRejected
  \/ pageResponse
  \/ pageData
  \/ pageEnd
  \/ pageSourceError
  \/ pageSinkError
  \/ writerFinish

Spec == Init /\ [][Next]_vars

\* ------------------------------------------------- query-building runs
\* The filters of the query-building runs: every known type, an unknown
\* type, and value lists of one and two values.
FilterIn == [key |-> <<"s">>, type |-> TypeIn, value |-> Undefined, values |-> Some(<<<<"x">>, <<"y", " ", "z">>>>)]
FilterEq == [key |-> <<"e">>, type |-> TypeEq, value |-> Some(<<"1">>), values |-> Undefined]
QueryFilters ==
  { FilterGte, FilterIn, FilterEq,
    [key |-> <<"c">>, type |-> TypeNin, value |-> Undefined, values |-> Some(<<<<"a", "r">>>>)],
    [key |-> <<"n">>, type |-> TypeStarts, value |-> Some(<<"t", "&", "=">>), values |-> Undefined],
    [key |-> <<"y">>, type |-> TypeLte, value |-> Some(<<"9">>), values |-> Undefined] }

RECURSIVE SeqsUpTo(_, _)
\* The sequences over S of length at most n.
SeqsUpTo(S, n) ==
  IF n = 0 THEN {<<>>}
  ELSE LET shorter == SeqsUpTo(S, n - 1)
       IN  shorter \cup {Append(q, x) : q \in shorter, x \in S}

QueryConfigs ==
  [fields : {Undefined, Some(<<FieldA>>), Some(<<FieldA, FieldB>>)},
   filters : {Undefined} \cup {Some(q) : q \in SeqsUpTo(QueryFilters, MaxFilters)}]

\* A row-streaming acquisition about to run downloadResourceLines: the
\* metadata is fetched, the strategy chosen and the task event emitted.
InitQuery ==
  /\ catalogConfig = [url |-> CatalogUrl, apiKey |-> Undefined]
  /\ active = 1
  /\ peer = Undefined
  /\ tmpFiles = NoFiles
  /\ importConfig \in QueryConfigs
  /\ secrets = Undefined
  /\ pc = "taskWait"
  /\ requests = <<Request(MetaUrl, Undefined)>>
  /\ responses = <<Resolved(200, "object")>>
  /\ resource = Some(newResource(BodyStorage))
  /\ file = FALSE
  /\ dataset = Some(BodyStorage)
  /\ strategy = "lines"
  /\ taskEvents = <<[label |-> "[lines]", total |-> Undefined]>>
  /\ logErrors = <<>>
  /\ cause = Undefined
  /\ error = Undefined
  /\ returned = Undefined
  /\ disk = NoDisk
  /\ unlink = "none"
  /\ writer = "none"
  /\ source = "none"
  /\ url = NoPage
  /\ isFirstChunk = TRUE
  /\ skippedHeader = FALSE
  /\ downloaded = 0
  /\ pendingLogPromise = FALSE
  /\ progress = <<>>
  /\ settled = 0
  /\ pageNo = 0
  /\ pageRaw = <<>>
  /\ pageSunk = <<>>
  /\ served = <<>>
  /\ chunksSent = 0

NextQuery == downloadResourceLines

SpecQuery == InitQuery /\ [][NextQuery]_vars

\* ------------------------------------------------- normalization runs
\* The metadata responses of the normalization runs: every combination of
\* an absent source, a source without size, a size of zero and a positive
\* size for file, storage and originalFile, with every schema of at most
\* MaxFields fields.
SizeChoices(n) == {Undefined, Some([size |-> Undefined]), Some([size |-> Some(0)]), Some([size |-> Some(n)])}

KeyMixed == <<"_", "A", " ", "b">>
KeyPlain == <<"f", "2">>
KeyUnderscores == <<"_", "_", "a">>
KeyDash == <<"a", "-", "B">>
MetaKeys == {KeyMixed, KeyPlain, KeyUnderscores, KeyDash}
TypeOfKey(k) ==
  CASE k = KeyMixed -> "string" [] k = KeyPlain -> "integer"
    [] k = KeyUnderscores -> "number" [] OTHER -> "boolean"
\* Fields with and without the x-extension marker, each with a type.
MetaFields == {[key |-> k, ext |-> e, type |-> TypeOfKey(k)] : k \in MetaKeys, e \in BOOLEAN}

MetaDatasets ==
  [kind : {"object"}, file : SizeChoices(10), storage : SizeChoices(20),
   originalFile : SizeChoices(30),
   schema : {Undefined} \cup {Some(q) : q \in SeqsUpTo(MetaFields, MaxFields)}]

\* getResource has issued the metadata request.
InitMeta ==
  /\ catalogConfig = [url |-> CatalogUrl, apiKey |-> Undefined]
  /\ active = 1
  /\ peer = Undefined
  /\ tmpFiles = NoFiles
  /\ importConfig = [fields |-> Undefined, filters |-> Undefined]
  /\ secrets = Undefined
  /\ pc = "metaWait"
  /\ requests = <<Request(MetaUrl, Undefined)>>
  /\ responses = <<>>
  /\ resource = Undefined
  /\ file = FALSE
  /\ dataset = Undefined
  /\ strategy = "none"
  /\ taskEvents = <<>>
  /\ logErrors = <<>>
  /\ cause = Undefined
  /\ error = Undefined
  /\ returned = Undefined
  /\ disk = NoDisk
  /\ unlink = "none"
  /\ writer = "none"
  /\ source = "none"
  /\ url = NoPage
  /\ isFirstChunk = TRUE
  /\ skippedHeader = FALSE
  /\ downloaded = 0
  /\ pendingLogPromise = FALSE
  /\ progress = <<>>
  /\ settled = 0
  /\ pageNo = 0
  /\ pageRaw = <<>>
  /\ pageSunk = <<>>
  /\ served = <<>>
  /\ chunksSent = 0

NextMeta == getMetaDataOf(MetaDatasets)

SpecMeta == InitMeta /\ [][NextMeta]_vars

\* ------------------------------------------------- the start of the task
\* From the metadata response to the first transfer request, over the
\* metadata bodies with every combination of sizes and no schema.
NextTask ==
  \/ getMetaDataOf({d \in MetaDatasets : d.schema = Undefined})
  \/ downloadResource
  \/ taskRejected
  \/ downloadResourceFile
  \/ downloadResourceLines

SpecTask == InitMeta /\ [][NextTask]_vars

\* ------------------------------------------- two concurrent acquisitions
\* The context and the locals of the acquisition whose event is being
\* handled: everything but its output file, which lives in tmpDir.  (The
\* count of the chunks the server has sent belongs to the server.)
callState ==
  [importConfig |-> importConfig,
   secrets |-> secrets,
   pc |-> pc,
   requests |-> requests,
   responses |-> responses,
   resource |-> resource,
   file |-> file,
   dataset |-> dataset,
   strategy |-> strategy,
   taskEvents |-> taskEvents,
   logErrors |-> logErrors,
   cause |-> cause,
   error |-> error,
   returned |-> returned,
   unlink |-> unlink,
   writer |-> writer,
   source |-> source,
   url |-> url,
   isFirstChunk |-> isFirstChunk,
   skippedHeader |-> skippedHeader,
   downloaded |-> downloaded,
   pendingLogPromise |-> pendingLogPromise,
   progress |-> progress,
   settled |-> settled,
   pageNo |-> pageNo,
   pageRaw |-> pageRaw,
   pageSunk |-> pageSunk,
   served |-> served]

\* The files of tmpDir, the active acquisition's output file included.
allFiles ==
  [p \in DOMAIN tmpFiles \cup {FilePathOf} |-> IF p = FilePathOf THEN disk ELSE tmpFiles[p]]

\* The event loop hands the next event to the other acquisition: the
\* running one is suspended at its await with its context and locals, the
\* other resumes with its own, and finds at its path what tmpDir holds.
yield ==
  /\ IsDefined(peer)
  /\ active' = 3 - active
  /\ peer' = Some(callState)
  /\ LET otherPath == filePathFor(ResourceIds[3 - active])
     IN  /\ disk' = allFiles[otherPath]
         /\ tmpFiles' = [p \in (DOMAIN allFiles) \ {otherPath} |-> allFiles[p]]
  /\ importConfig' = Get(peer).importConfig
  /\ secrets' = Get(peer).secrets
  /\ pc' = Get(peer).pc
  /\ requests' = Get(peer).requests
  /\ responses' = Get(peer).responses
  /\ resource' = Get(peer).resource
  /\ file' = Get(peer).file
  /\ dataset' = Get(peer).dataset
  /\ strategy' = Get(peer).strategy
  /\ taskEvents' = Get(peer).taskEvents
  /\ logErrors' = Get(peer).logErrors
  /\ cause' = Get(peer).cause
  /\ error' = Get(peer).error
  /\ returned' = Get(peer).returned
  /\ unlink' = Get(peer).unlink
  /\ writer' = Get(peer).writer
  /\ source' = Get(peer).source
  /\ url' = Get(peer).url
  /\ isFirstChunk' = Get(peer).isFirstChunk
  /\ skippedHeader' = Get(peer).skippedHeader
  /\ downloaded' = Get(peer).downloaded
  /\ pendingLogPromise' = Get(peer).pendingLogPromise
  /\ progress' = Get(peer).progress
  /\ settled' = Get(peer).settled
  /\ pageNo' = Get(peer).pageNo
  /\ pageRaw' = Get(peer).pageRaw
  /\ pageSunk' = Get(peer).pageSunk
  /\ served' = Get(peer).served
  /\ UNCHANGED <<catalogConfig, chunksSent>>

\* An acquisition of resource id that has fetched the metadata body,
\* chosen its strategy for an import configuration without fields and
\* filters, and emitted its task event.
startedCall(id, body) ==
  [importConfig |-> [fields |-> Undefined, filters |-> Undefined],
   secrets |-> Undefined,
   pc |-> "taskWait",
   requests |-> <<[url |-> CatalogUrl \o ApiDatasets \o id, apiKey |-> Undefined]>>,
   responses |-> <<Resolved(200, "object")>>,
   resource |-> Some([newResource(body) EXCEPT !.id = id]),
   file |-> hasBulkFile(body),
   dataset |-> Some(body),
   strategy |-> IF hasBulkFile(body) THEN "bulk" ELSE "lines",
   taskEvents |-> <<[label |-> IF hasBulkFile(body) THEN "[file]" ELSE "[lines]",
                     total |-> IF hasBulkFile(body) THEN resolveSize(body) ELSE Undefined]>>,
   logErrors |-> <<>>,
   cause |-> Undefined,
   error |-> Undefined,
   returned |-> Undefined,
   unlink |-> "none",
   writer |-> "none",
   source |-> "none",
   url |-> NoPage,
   isFirstChunk |-> TRUE,
   skippedHeader |-> FALSE,
   downloaded |-> 0,
   pendingLogPromise |-> FALSE,
   progress |-> <<>>,
   settled |-> 0,
   pageNo |-> 0,
   pageRaw |-> <<>>,
   pageSunk |-> <<>>,
   served |-> <<>>]

\* Two acquisitions of one process, for two resource ids: the first takes
\* row streaming, the second the bulk transfer.
InitPair ==
  /\ catalogConfig = [url |-> CatalogUrl, apiKey |-> Undefined]
  /\ active = 1
  /\ LET first == startedCall(ResourceIds[1], BodyStorage)
     IN  /\ importConfig = first.importConfig
         /\ secrets = first.secrets
         /\ pc = first.pc
         /\ requests = first.requests
         /\ responses = first.responses
         /\ resource = first.resource
         /\ file = first.file
         /\ dataset = first.dataset
         /\ strategy = first.strategy
         /\ taskEvents = first.taskEvents
         /\ logErrors = first.logErrors
         /\ cause = first.cause
         /\ error = first.error
         /\ returned = first.returned
         /\ unlink = first.unlink
         /\ writer = first.writer
         /\ source = first.source
         /\ url = first.url
         /\ isFirstChunk = first.isFirstChunk
         /\ skippedHeader = first.skippedHeader
         /\ downloaded = first.downloaded
         /\ pendingLogPromise = first.pendingLogPromise
         /\ progress = first.progress
         /\ settled = first.settled
         /\ pageNo = first.pageNo
         /\ pageRaw = first.pageRaw
         /\ pageSunk = first.pageSunk
         /\ served = first.served
  /\ peer = Some(startedCall(ResourceIds[2], BodyFile))
  /\ disk = NoDisk
  /\ tmpFiles = [p \in {filePathFor(ResourceIds[2])} |-> NoDisk]
  /\ chunksSent = 0

\* The events of the two transfers, request failures by status included.
NextPair ==
  \/ yield
  \/ downloadResourceFile
  \/ bulkResponse
  \/ bulkData
  \/ bulkEnd
  \/ bulkFinish
  \/ progressSettled
  \/ downloadResourceLines
  \/ pageResponse
  \/ pageData
  \/ pageEnd
  \/ writerFinish

SpecPair == InitPair /\ [][NextPair]_vars

\* ------------------------------------------------------ one transfer alone
\* Pages of a transfer run: a page after a page whose header was stripped.
MaxTransferPages == 3

\* The link headers of the transfer runs: those of LinkLists, and a header
\* with two next entries.
TransferLinks ==
  LinkLists \cup {<<Entry(NextCursor, RelNextName), Entry(PrevUrl, RelNextName)>>}

\* One acquisition that has reached its transfer: the bulk transfer for a
\* dataset with a file, row streaming for one without.
InitTransfer ==
  /\ catalogConfig = [url |-> CatalogUrl, apiKey |-> Undefined]
  /\ active = 1
  /\ peer = Undefined
  /\ tmpFiles = NoFiles
  /\ \E body \in {BodyFile, BodyStorage} :
       LET first == startedCall(ResourceIds[1], body)
       IN  /\ importConfig = first.importConfig
           /\ secrets = first.secrets
           /\ pc = first.pc
           /\ requests = first.requests
           /\ responses = first.responses
           /\ resource = first.resource
           /\ file = first.file
           /\ dataset = first.dataset
           /\ strategy = first.strategy
           /\ taskEvents = first.taskEvents
           /\ logErrors = first.logErrors
           /\ cause = first.cause
           /\ error = first.error
           /\ returned = first.returned
           /\ unlink = first.unlink
           /\ writer = first.writer
           /\ source = first.source
           /\ url = first.url
           /\ isFirstChunk = first.isFirstChunk
           /\ skippedHeader = first.skippedHeader
           /\ downloaded = first.downloaded
           /\ pendingLogPromise = first.pendingLogPromise
           /\ progress = first.progress
           /\ settled = first.settled
           /\ pageNo = first.pageNo
           /\ pageRaw = first.pageRaw
           /\ pageSunk = first.pageSunk
           /\ served = first.served
  /\ disk = NoDisk
  /\ chunksSent = 0

\* The events of one transfer, failures included.
NextTransfer ==
  \/ downloadResourceFile
  \/ bulkRejected
  \/ bulkResponse
  \/ bulkData
  \/ bulkEnd
  \/ bulkFinish
  \/ bulkSourceError
  \/ bulkSinkError
  \/ unlinkDone
  \/ progressSettled
  \/ downloadResourceLines
  \/ pageRejected
  \/ pageResponse
  \/ pageData
  \/ pageEndOf(TransferLinks, MaxTransferPages)
  \/ pageSourceError
  \/ pageSinkError
  \/ writerFinish

SpecTransfer == InitTransfer /\ [][NextTransfer]_vars

\* ------------------------------------ a notification that never settles
\* One transfer whose progress notifications are never acknowledged and
\* whose streams do not fail: the events of the requests, the bodies and
\* the sink, each of which the event loop delivers once it is due.
NextStalled ==
  \/ downloadResourceFile
  \/ bulkResponse
  \/ bulkData
  \/ bulkEnd
  \/ bulkFinish
  \/ downloadResourceLines
  \/ pageResponse
  \/ pageData
  \/ pageEndOf(TransferLinks, MaxTransferPages)
  \/ writerFinish

SpecStalled == InitTransfer /\ [][NextStalled]_vars /\ WF_vars(NextStalled)

\* ---------------------------------------------------------------- prepare
\* '*************************'
Mask == [i \in 1..MaskLength |-> "*"]
PrepareSuffix == <<"/", "d", "a", "t", "a", "-", "f", "a", "i", "r", "/", "a", "p", "i", "/", "v", "1", "/", "c", "a", "t", "a", "l", "o", "g", "/", "d", "a", "t", "a", "s", "e", "t", "s", "?", "s", "i", "z", "e", "=", "1", "&", "s", "e", "l", "e", "c", "t", "=", "i", "d">>
ConfigPrefix == "Configuration invalide, veuillez verifier l'URL du catalogue et la cle API si necessaire ("

\* Faulty variant of reconcile: the mask is not told apart from a key, so
\* a masked field overwrites the stored key with the mask.
reconcileMaskAsKey(apiKey, stored) ==
  LET given == apiKey # Undefined /\ apiKey # Some(<<>>)
      kept == stored # Undefined /\ stored # Some(<<>>)
  IN  IF given
      THEN [apiKey |-> Some(Mask), secret |-> apiKey]
      ELSE IF kept /\ ~given
      THEN [apiKey |-> apiKey, secret |-> Undefined]
      ELSE [apiKey |-> apiKey, secret |-> stored]

\* Faulty variant of reconcile: the key is copied to the secrets and left
\* in clear in the configuration.
reconcileNoMask(apiKey, stored) ==
  IF apiKey # Undefined /\ apiKey # Some(<<>>) /\ apiKey # Some(Mask)
  THEN [apiKey |-> apiKey, secret |-> apiKey]
  ELSE IF stored # Undefined /\ stored # Some(<<>>) /\ (apiKey = Undefined \/ apiKey = Some(<<>>))
  THEN [apiKey |-> apiKey, secret |-> Undefined]
  ELSE [apiKey |-> apiKey, secret |-> stored]

\* The if / else if of prepare over catalogConfig.apiKey and
\* secrets.apiKey: what the two hold afterwards.
reconcile(apiKey, stored) ==
  LET given == apiKey # Undefined /\ apiKey # Some(<<>>)
      kept == stored # Undefined /\ stored # Some(<<>>)
  IN  IF given /\ apiKey # Some(Mask)
      THEN [apiKey |-> Some(Mask), secret |-> apiKey]
      ELSE IF kept /\ ~given
      THEN [apiKey |-> apiKey, secret |-> Undefined]
      ELSE [apiKey |-> apiKey, secret |-> stored]

\* Faulty variant of prepareError: the cause is rethrown as it is.
prepareErrorBare(e) == Err(messageOf(e))

\* The catch of prepare.
prepareError(e) == Err(<<ConfigPrefix>> \o messageOf(e) \o <<")">>)

\* Faulty variant of prepare: the url is tested first, and a call with an
\* empty url rejects before the key reconciliation.
prepareChecking ==
  /\ pc = "prepare"
  /\ LET r == reconcile(catalogConfig.apiKey, secrets)
     IN  IF catalogConfig.url = <<>>
         THEN /\ error' = Some(prepareError(Err(<<"URL du catalogue non definie">>)))
              /\ pc' = "rejected"
              /\ UNCHANGED <<catalogConfig, secrets, requests>>
         ELSE /\ catalogConfig' = [catalogConfig EXCEPT !.apiKey = r.apiKey]
              /\ secrets' = r.secret
              /\ requests' = Append(requests, Request(catalogConfig.url \o PrepareSuffix, r.secret))
              /\ pc' = "prepareWait"
              /\ error' = error
  /\ UNCHANGED <<pairVars, importConfig, responses, metaVars, driverVars, logErrors, cause,
                 returned, fileVars, source, loopVars, progressVars, pageVars, chunksSent>>

\* prepare up to its awaited request: the key reconciliation, then the url
\* test, whose error the catch wraps.
prepare ==
  /\ pc = "prepare"
  /\ LET r == reconcile(catalogConfig.apiKey, secrets)
     IN  /\ catalogConfig' = [catalogConfig EXCEPT !.apiKey = r.apiKey]
         /\ secrets' = r.secret
         /\ IF catalogConfig.url = <<>>
            THEN /\ error' = Some(prepareError(Err(<<"URL du catalogue non definie">>)))
                 /\ pc' = "rejected"
                 /\ requests' = requests
            ELSE /\ requests' = Append(requests, Request(catalogConfig.url \o PrepareSuffix, r.secret))
                 /\ pc' = "prepareWait"
                 /\ error' = error
  /\ UNCHANGED <<pairVars, importConfig, responses, metaVars, driverVars, logErrors, cause,
                 returned, fileVars, source, loopVars, progressVars, pageVars, chunksSent>>

\* The connectivity request is rejected (an error status or a network
\* error): the catch wraps the cause.
prepareRejected ==
  /\ pc = "prepareWait"
  /\ \E e \in AxiosErrors :
       /\ responses' = Append(responses, Rejected)
       /\ error' = Some(prepareError(e))
       /\ pc' = "rejected"
  /\ UNCHANGED <<catalogConfig, pairVars, ctxVars, requests, metaVars, driverVars, logErrors,
                 cause, returned, fileVars, source, loopVars, progressVars, pageVars,
                 chunksSent>>

\* The connectivity request resolves (the client resolves success statuses
\* only, and prepare reads nothing of the response): the context is
\* returned.
prepareResolved ==
  /\ pc = "prepareWait"
  /\ \E s \in {t \in Statuses : t < 300} :
       responses' = Append(responses, Resolved(s, "object"))
  /\ returned' = Some([catalogConfig |-> catalogConfig, secrets |-> secrets])
  /\ pc' = "resolved"
  /\ UNCHANGED <<catalogConfig, pairVars, ctxVars, requests, metaVars, driverVars, logErrors,
                 cause, error, fileVars, source, loopVars, progressVars, pageVars,
                 chunksSent>>

\* A prepare context: one of two catalog urls or none, an API key field that is
\* absent, empty, the mask or a key, and stored secrets with or without a
\* key.
InitPrepare ==
  /\ catalogConfig \in
       [url : {<<>>, CatalogUrl, <<"h", "t", "t", "p", ":", "/", "/", "d">>},
        apiKey : {Undefined, Some(<<>>), Some(Mask), Some(<<"k", "1">>), Some(<<"k", "2">>),
                  Some(<<"k", "3">>)}]
  /\ active = 1
  /\ peer = Undefined
  /\ tmpFiles = NoFiles
  /\ importConfig = [fields |-> Undefined, filters |-> Undefined]
  /\ secrets \in {Undefined, Some(<<"k", "1">>), Some(<<"k", "2">>)}
  /\ pc = "prepare"
  /\ requests = <<>>
  /\ responses = <<>>
  /\ resource = Undefined
  /\ file = FALSE
  /\ dataset = Undefined
  /\ strategy = "none"
  /\ taskEvents = <<>>
  /\ logErrors = <<>>
  /\ cause = Undefined
  /\ error = Undefined
  /\ returned = Undefined
  /\ disk = NoDisk
  /\ unlink = "none"
  /\ writer = "none"
  /\ source = "none"
  /\ url = NoPage
  /\ isFirstChunk = TRUE
  /\ skippedHeader = FALSE
  /\ downloaded = 0
  /\ pendingLogPromise = FALSE
  /\ progress = <<>>
  /\ settled = 0
  /\ pageNo = 0
  /\ pageRaw = <<>>
  /\ pageSunk = <<>>
  /\ served = <<>>
  /\ chunksSent = 0

NextPrepare ==
  \/ prepare
  \/ prepareRejected
  \/ prepareResolved

SpecPrepare == InitPrepare /\ [][NextPrepare]_vars

\* -------------------------------------------- prepare on its own output
\* A second call of prepare, with the catalogConfig and the secrets that
\* the first call returned.
prepareAgain ==
  /\ pc = "resolved"
  /\ Len(requests) = 1
  /\ IsDefined(returned)
  /\ catalogConfig' = Get(returned).catalogConfig
  /\ secrets' = Get(returned).secrets
  /\ pc' = "prepare"
  /\ UNCHANGED <<pairVars, importConfig, httpVars, metaVars, driverVars, outcomeVars, fileVars, source,
                 loopVars, progressVars, pageVars, chunksSent>>

NextAgain ==
  \/ prepare
  \/ prepareRejected
  \/ prepareResolved
  \/ prepareAgain

SpecAgain == InitPrepare /\ [][NextAgain]_vars

\* ------------------------------------------------------------ properties
LinesBase == CatalogUrl \o ApiDatasets \o ResourceId \o <<"/", "l", "i", "n", "e", "s">>
StartsWith(s, prefix) == Len(s) >= Len(prefix) /\ SubSeq(s, 1, Len(prefix)) = prefix
AbsentOrEmpty(o) == o = Undefined \/ o = Some(<<>>)
\* The transfer requests: every request after the metadata request.
TransferRequests == SubSeq(requests, 2, Len(requests))

\* C1: the bulk transfer (GET .../full) is taken if and only if the file
\* flag is true and fields is absent or empty and filters is absent or
\* empty; otherwise row streaming (GET .../lines) is taken; exactly one of
\* the two strategies runs per acquisition.
C1_StrategySelection ==
  /\ strategy = "none" => TransferRequests = <<>> /\ taskEvents = <<>>
  /\ strategy # "none" =>
       /\ strategy = "bulk" <=>
            (file /\ AbsentOrEmpty(importConfig.fields) /\ AbsentOrEmpty(importConfig.filters))
       /\ Len(taskEvents) = 1
  /\ strategy = "bulk" =>
       /\ Len(TransferRequests) <= 1
       /\ \A i \in 1..Len(TransferRequests) : TransferRequests[i].url = FullUrl
  /\ strategy = "lines" =>
       /\ \A i \in 1..Len(TransferRequests) : TransferRequests[i].url # FullUrl
       /\ TransferRequests # <<>> => StartsWith(TransferRequests[1].url, LinesBase)

\* A bulk transfer completed for a configuration whose lists are present
\* and empty.
C1_Witness ==
  /\ pc = "resolved"
  /\ strategy = "bulk"
  /\ importConfig.fields = Some(<<>>)
  /\ importConfig.filters = Some(<<>>)
  /\ Len(requests) = 2

HasNewline(s) == \E i \in 1..Len(s) : s[i] = NL
AfterFirstNewline(s) == SubSeq(s, IndexOf(s, NL) + 1, Len(s))

\* C2: on every page after the first, however the body is split into
\* chunks, the bytes appended to the sink are exactly the page's bytes that
\* follow its first newline.
C2_SingleHeader ==
  (pageNo >= 2 /\ HasNewline(pageRaw)) => pageSunk = AfterFirstNewline(pageRaw)

\* C3: in row streaming the first GET goes to the client-built URL; after
\* every page whose response names a next cursor one more GET goes to that
\* cursor verbatim, and after a page that names none the loop is over and
\* no further GET is issued.
C3_CursorFollowing ==
  strategy = "lines" =>
    /\ TransferRequests # <<>> => TransferRequests[1].url = firstPageUrl(importConfig)
    /\ \A i \in 1..Len(served) :
         IF IsDefined(served[i])
         THEN Len(TransferRequests) >= i + 1 /\ TransferRequests[i + 1].url = Get(served[i])
         ELSE Len(TransferRequests) = i /\ pc = "resolved"

\* C4 (state part): filePath is empty from normalization until getResource
\* resolves; it holds the output path only once the selected transfer has
\* completed; a rejected or unsettled getResource has returned nothing.
C4_State ==
  /\ (IsDefined(resource) /\ pc # "resolved") => Get(resource).filePath = <<>>
  /\ pc # "resolved" => returned = Undefined
  /\ pc = "rejected" => IsDefined(error)
  /\ pc = "resolved" =>
       /\ returned = resource
       /\ Get(resource).filePath = FilePathOf
       /\ error = Undefined /\ cause = Undefined /\ logErrors = <<>>
       /\ \A i \in 1..Len(responses) : responses[i] # Rejected /\ responses[i].status = 200
       /\ strategy = "bulk" => source = "ended" /\ writer = "closed"
       /\ strategy = "lines" => source = "ended" /\ ~Truthy(url) /\ writer \in {"ending", "finished"}

\* C4 (step part): every change of the resource is the one assignment of
\* the output path to an empty filePath, made as getResource resolves.
C4_Step ==
  (IsDefined(resource) /\ resource' # resource) =>
    /\ Get(resource).filePath = <<>>
    /\ resource' = Some([Get(resource) EXCEPT !.filePath = FilePathOf])
    /\ pc' = "resolved"

C5_CleanupOnFailure == (pc = "rejected" /\ disk.created) => ~disk.exists

\* The response to the latest transfer request, when there is one.
HasTransferResponse == Len(responses) >= 2
LastResponse == responses[Len(responses)]
BadResponse(r) == r.kind = "rejected" \/ r.status # 200

C8_MetadataFailure ==
  (responses # <<>> /\ BadResponse(responses[1])) =>
    /\ pc = "rejected"
    /\ Len(requests) = 1
    /\ strategy = "none"
    /\ ~disk.created
    /\ resource = Undefined
    /\ returned = Undefined
    /\ logErrors = <<>>
    /\ IsDefined(error)
    /\ IF responses[1].kind = "rejected"
       THEN \E e \in AxiosErrors : Get(error).text = <<MetaPrefix>> \o e.text
       ELSE /\ Len(Get(error).text) = 5
            /\ Get(error).text[1] = MetaPrefix
            /\ Get(error).text[3] = StatusStr(responses[1].status)

\* The metadata GET is answered 404.
C8_Witness ==
  /\ Len(responses) = 1
  /\ responses[1].kind = "resolved"
  /\ responses[1].status = 404
  /\ pc = "rejected"

\* C9: a 200 metadata response whose body is a plain string or null makes
\* the metadata step fail with the metadata-fetch error, yields no
\* resource and lets no transfer start.
C9_MalformedBody ==
  (responses # <<>> /\ responses[1].kind = "resolved" /\ responses[1].status = 200
     /\ responses[1].body \in {"string", "null"}) =>
    /\ pc = "rejected"
    /\ resource = Undefined
    /\ Len(requests) = 1
    /\ IsDefined(error)
    /\ Get(error).text[1] = MetaPrefix

\* The clause the claim gives for one filter.
Quoted(v) == <<"\"">> \o v \o <<"\"">>
ClaimedClause(f) ==
  LET head == <<"&">> \o f.key \o <<"_">> \o f.type \o <<"=">>
  IN  IF f.type = TypeIn \/ f.type = TypeNin
      THEN head \o Join([i \in 1..Len(Get(f.values)) |-> Quoted(Get(f.values)[i])], <<",">>)
      ELSE IF f.type = TypeStarts \/ f.type = TypeGte \/ f.type = TypeLte
      THEN head \o Get(f.value)
      ELSE <<>>
FiltersOf(cfg) == IF IsDefined(cfg.filters) THEN Get(cfg.filters) ELSE <<>>

\* C10: the first-page URL is the URL built for the same fields without
\* filters, followed by one clause per filter in input order: quoted,
\* comma-joined values for in and nin, the raw value for starts, gte and
\* lte, and nothing for any other type.
C10_FilterClauses ==
  (strategy = "lines" /\ TransferRequests # <<>>) =>
    LET fs == FiltersOf(importConfig)
    IN  TransferRequests[1].url =
          firstPageUrl([fields |-> importConfig.fields, filters |-> Undefined])
            \o Flatten([i \in 1..Len(fs) |-> ClaimedClause(fs[i])])

\* The URL is built for an in filter of two values followed by a filter of
\* unknown type.
C10_Witness ==
  /\ importConfig.filters = Some(<<FilterIn, FilterEq>>)
  /\ importConfig.fields = Some(<<FieldA, FieldB>>)
  /\ Len(requests) = 2

\* The select clause the claim gives for a field-selection list.
ClaimedSelect(fields) ==
  IF AbsentOrEmpty(fields) THEN <<>>
  ELSE SelectParam \o Join([i \in 1..Len(Get(fields)) |-> Get(fields)[i].key], <<",">>)

\* C11: the first-page URL is the lines URL, followed by &select= and the
\* comma-joined field keys in input order when a field-selection list is
\* present, by no select clause when the list is absent or empty, and then
\* by the filter clauses.
C11_SelectClause ==
  (strategy = "lines" /\ TransferRequests # <<>>) =>
    TransferRequests[1].url =
      appendFilters(CatalogUrl \o ApiDatasets \o ResourceId \o LinesSuffix
                      \o ClaimedSelect(importConfig.fields),
                    FiltersOf(importConfig))

\* C12: every request of an acquisition (the metadata GET, the bulk GET,
\* the first page GET and every GET to a cursor the server named) carries
\* the x-apiKey header with the value of secrets.apiKey when the key is
\* present, and no header when it is absent.
C12_CredentialPropagation ==
  \A i \in 1..Len(requests) : requests[i].apiKey = secrets

\* With a key, the metadata GET, the first page GET and a GET to a cursor
\* have been issued.
C12_Witness ==
  /\ IsDefined(secrets)
  /\ strategy = "lines"
  /\ Len(requests) = 3
  /\ requests[3].url = NextCursor
  /\ requests[3].apiKey = Some(<<"k", "1">>)

\* getMetaData has returned for the dataset the response gave.
Normalized == pc = "driver" /\ IsDefined(dataset) /\ IsDefined(resource)
HasSize(o) == o # Undefined /\ Get(o).size # Undefined

\* C13: the resolved size is file.size if defined, otherwise storage.size
\* if defined, otherwise originalFile.size, otherwise undefined.
C13_SizeResolution ==
  Normalized =>
    LET d == Get(dataset)
        size == Get(resource).size
    IN  IF HasSize(d.file) THEN size = Get(d.file).size
        ELSE IF HasSize(d.storage) THEN size = Get(d.storage).size
        ELSE IF HasSize(d.originalFile) THEN size = Get(d.originalFile).size
        ELSE size = Undefined

\* A file size of zero wins over a positive storage size.
C13_Witness ==
  /\ Normalized
  /\ Get(dataset).file = Some([size |-> Some(0)])
  /\ Get(dataset).storage = Some([size |-> Some(20)])
  /\ Get(resource).size = Some(0)

\* The slug the claim gives for each key of the normalization runs.
ExpectedSlug(k) ==
  CASE k = KeyMixed -> <<"a", "_", "b">>
    [] k = KeyPlain -> <<"f", "2">>
    [] k = KeyUnderscores -> <<"a">>
    [] k = KeyDash -> <<"a", "b">>
SchemaIn == IF IsDefined(Get(dataset).schema) THEN Get(Get(dataset).schema) ELSE <<>>

\* C14: the output schema has the length and the order of the input; a
\* field without the marker is returned unchanged; a field with the marker
\* loses it and gets the lowercase slug of its key without leading
\* underscore, its other properties kept; an absent schema gives an empty
\* schema.
C14_SchemaNormalization ==
  Normalized =>
    LET out == Get(resource).schema
    IN  /\ Len(out) = Len(SchemaIn)
        /\ \A i \in 1..Len(SchemaIn) :
             IF SchemaIn[i].ext
             THEN out[i] = [key |-> ExpectedSlug(SchemaIn[i].key), ext |-> FALSE,
                            type |-> SchemaIn[i].type]
             ELSE out[i] = SchemaIn[i]

\* A marked field followed by an unmarked field of the same key.
C14_Witness ==
  /\ Normalized
  /\ SchemaIn = <<[key |-> KeyMixed, ext |-> TRUE, type |-> "string"],
                  [key |-> KeyMixed, ext |-> FALSE, type |-> "string"]>>
  /\ Get(resource).schema[1].key = <<"a", "_", "b">>
  /\ Get(resource).schema[2].key = KeyMixed

\* C15: normalizing the schema getMetaData returned gives the same schema
\* again.
C15_Idempotence ==
  Normalized => normalizeSchema(Some(Get(resource).schema)) = Get(resource).schema

\* A schema whose marked key starts with two underscores was normalized.
C15_Witness ==
  /\ Normalized
  /\ Len(SchemaIn) = 2
  /\ SchemaIn[1] = [key |-> KeyUnderscores, ext |-> TRUE, type |-> "number"]
  /\ SchemaIn[2].ext
  /\ Get(resource).schema[1].key = <<"a">>

\* C16: the file flag is true if and only if the response has a file
\* object, whatever size was resolved.
C16_HasBulkFile ==
  Normalized => (file <=> Get(dataset).file # Undefined)

\* A file object without size gives true although the size comes from
\* storage.
C16_Witness ==
  /\ Normalized
  /\ Get(dataset).file = Some([size |-> Undefined])
  /\ Get(resource).size = Some(20)
  /\ file

\* C17: no step of an acquisition, on either strategy, on success or on
\* failure, changes importConfig.fields or importConfig.filters.
C17_ConfigUnchanged ==
  [][/\ importConfig'.fields = importConfig.fields
     /\ importConfig'.filters = importConfig.filters]_vars

\* Row streaming with an absent field list and an absent filter list has
\* built its URL and failed.
C17_Witness ==
  /\ pc = "rejected"
  /\ strategy = "lines"
  /\ importConfig = [fields |-> Undefined, filters |-> Undefined]
  /\ Len(requests) >= 2

\* What holds of an acquisition run alone, for its locals st and its
\* output file f: the byte counter is the number of bytes written to the
\* file, the progress values increase and end at or below the counter, a
\* notification is in flight only after one was dispatched, and the file
\* exists once the writer does.
AsAlone(st, f) ==
  /\ st.downloaded = Len(f.content)
  /\ \A i \in 1..Len(st.progress) :
       /\ st.progress[i] <= st.downloaded
       /\ i > 1 => st.progress[i - 1] < st.progress[i]
  /\ st.pendingLogPromise => st.progress # <<>>
  /\ f.created <=> st.writer # "none"
  /\ st.strategy = "bulk" => st.url = NoPage /\ st.pageNo = 0

OtherPath == filePathFor(ResourceIds[3 - active])

\* C18 (state part): the two output paths differ, and the running and the
\* suspended acquisition each have the counter, progress values, cursor and
\* file content of a run alone.
C18_State ==
  IsDefined(peer) =>
    /\ OtherPath # FilePathOf
    /\ OtherPath \in DOMAIN tmpFiles
    /\ AsAlone(callState, disk)
    /\ AsAlone(Get(peer), tmpFiles[OtherPath])

\* C18 (step part): an event of the running acquisition changes nothing of
\* the suspended one, neither its locals nor its file; a switch resumes
\* the suspended acquisition exactly as it was left, with its file.
C18_Step ==
  /\ active' = active => peer' = peer /\ tmpFiles' = tmpFiles
  /\ active' # active =>
       /\ callState' = Get(peer)
       /\ disk' = tmpFiles[OtherPath]
       /\ peer' = Some(callState)
       /\ tmpFiles'[FilePathOf] = disk

NonEmptyKey(k) == k # Undefined /\ k # Some(<<>>)

\* C19 (step part): the reconciliation step of prepare copies a non-empty
\* key other than the mask to the secrets and puts the mask in its place;
\* deletes the stored key when the field is absent or empty; leaves the
\* secrets as they are when the field holds the mask; no later step of
\* prepare changes the field or the secrets.
C19_Step ==
  IF pc = "prepare"
  THEN LET k == catalogConfig.apiKey
       IN  /\ catalogConfig'.url = catalogConfig.url
           /\ (NonEmptyKey(k) /\ k # Some(Mask)) =>
                secrets' = k /\ catalogConfig'.apiKey = Some(Mask)
           /\ AbsentOrEmpty(k) =>
                secrets' = Undefined /\ catalogConfig'.apiKey = k
           /\ k = Some(Mask) =>
                secrets' = secrets /\ catalogConfig'.apiKey = k
  ELSE secrets' = secrets /\ catalogConfig' = catalogConfig

\* C19 (state part): once the reconciliation has run, and in what a
\* successful prepare returns, catalogConfig.apiKey is absent, empty or the
\* mask.
C19_State ==
  /\ pc # "prepare" => catalogConfig.apiKey \in {Undefined, Some(<<>>), Some(Mask)}
  /\ pc = "resolved" =>
       /\ IsDefined(returned)
       /\ Get(returned).catalogConfig.apiKey \in {Undefined, Some(<<>>), Some(Mask)}
       /\ Get(returned).secrets = secrets

\* C19: API key reconciliation in prepare, and no cleartext key in the
\* catalogConfig of a successful prepare.
C19_KeyReconciliation == [](C19_State) /\ [][C19_Step]_vars

\* A successful prepare that stored a key and returned the mask.
C19_Witness ==
  /\ pc = "resolved"
  /\ Get(returned).catalogConfig.apiKey = Some(Mask)
  /\ Get(returned).secrets = Some(<<"k", "2">>)
  /\ requests[1].apiKey = Some(<<"k", "2">>)

\* C20: with an empty url prepare rejects with an error naming the
\* undefined url and issues no request; when the connectivity GET is
\* rejected it rejects with a Configuration invalide error; when the GET
\* resolves it resolves with the catalogConfig and the secrets; the GET
\* goes to the catalog listing and carries x-apiKey exactly when
\* secrets.apiKey is set after the reconciliation.
C20_PrepareOutcome ==
  /\ Len(requests) <= 1
  /\ (pc # "prepare" /\ catalogConfig.url = <<>>) =>
       /\ pc = "rejected"
       /\ requests = <<>>
       /\ error = Some(Err(<<ConfigPrefix, "URL du catalogue non definie", ")">>))
       /\ returned = Undefined
  /\ (pc # "prepare" /\ catalogConfig.url # <<>>) =>
       /\ requests = <<[url |-> catalogConfig.url \o PrepareSuffix, apiKey |-> secrets]>>
       /\ responses = <<>> => pc = "prepareWait"
  /\ (responses # <<>> /\ responses[1].kind = "rejected") =>
       /\ pc = "rejected"
       /\ returned = Undefined
       /\ \E e \in AxiosErrors : error = Some(Err(<<ConfigPrefix>> \o e.text \o <<")">>))
  /\ (responses # <<>> /\ responses[1].kind = "resolved") =>
       /\ pc = "resolved"
       /\ error = Undefined
       /\ returned = Some([catalogConfig |-> catalogConfig, secrets |-> secrets])

\* The connectivity GET was rejected after the stored key was deleted: the
\* request carried no key.
C20_Witness ==
  /\ pc = "rejected"
  /\ responses = <<Rejected>>
  /\ secrets = Undefined
  /\ catalogConfig.apiKey = Some(<<>>)
  /\ requests[1].apiKey = Undefined

IsSuffix(s, t) == Len(s) <= Len(t) /\ SubSeq(t, Len(t) - Len(s) + 1, Len(t)) = s

\* C21 (state part): in row streaming at most one page request is
\* outstanding, none while a page body is in progress, and the request for
\* page n+1 exists only when n pages have ended; the bytes of the current
\* page are the last bytes of the file.
C21_State ==
  strategy = "lines" =>
    /\ Len(requests) - Len(responses) \in {0, 1}
    /\ source = "flowing" => Len(requests) = Len(responses)
    /\ pc = "pageWait" => source # "flowing"
    /\ Len(TransferRequests) <= Len(served) + 1
    /\ pageNo <= Len(TransferRequests)
    /\ Len(served) <= pageNo
    /\ source = "flowing" => Len(served) = pageNo - 1
    /\ IsSuffix(pageSunk, disk.content)

\* C21 (step part): a further page is requested only in the step in which
\* the current page's body ends, with all its bytes already in the file;
\* the file changes only by a chunk of the page in progress being appended
\* to it.
C21_Step ==
  strategy = "lines" =>
    /\ (requests' # requests /\ pc # "taskWait") =>
         /\ source = "flowing"
         /\ source' = "ended"
         /\ Len(served') = Len(served) + 1
         /\ disk' = disk
         /\ pageSunk' = pageSunk
    /\ disk'.content # disk.content =>
         /\ source = "flowing"
         /\ source' = "flowing"
         /\ pageNo' = pageNo
         /\ Len(pageSunk') > Len(pageSunk)
         /\ SubSeq(pageSunk', 1, Len(pageSunk)) = pageSunk
         /\ disk'.content = disk.content \o SubSeq(pageSunk', Len(pageSunk) + 1, Len(pageSunk'))

\* C21: the pagination loop is strictly sequential: the GET for page n+1
\* is issued only after the body stream of page n has ended and all its
\* bytes were handed to the sink; at most one page request and one page
\* body are in progress; the bytes appear in the file in page order.
C21_Sequential == []C21_State /\ [][C21_Step]_vars

\* Two pages were fetched one after the other and both put bytes in the
\* file.
C21_Witness ==
  /\ strategy = "lines"
  /\ pc = "resolved"
  /\ pageNo = 2
  /\ Len(served) = 2
  /\ pageSunk # <<>>
  /\ Len(disk.content) > Len(pageSunk)

\* C22: in row streaming an error of the source stream of any page, the
\* first or a later one, makes downloadResourceLines reject with that
\* error: the call is settled as rejected with the stream's error as its
\* cause, and no request is outstanding or issued after it.
C22_SourceError ==
  (strategy = "lines" /\ source = "errored") =>
    /\ pc = "rejected"
    /\ IsDefined(cause)
    /\ Get(cause) \in StreamErrors
    /\ Len(requests) = Len(responses)

\* C23: in row streaming a write error of the sink at any page makes
\* downloadResourceLines fail and reach the driver as a download failure:
\* the call is rejected with the sink's error as its cause, wrapped by the
\* driver, and no request is issued after it.
C23_SinkError ==
  (strategy = "lines" /\ writer = "errored") =>
    /\ pc = "rejected"
    /\ IsDefined(cause)
    /\ Get(cause) \in SinkErrors
    /\ error = Some(downloadError(Get(cause)))

\* The result the claim gives for a page whose first next entry is o.
ClaimedNext(o) == IF IsDefined(o) THEN PageUrl(Get(o)) ELSE NoPage
\* The URL of the entry holds neither of the two separators of the header.
NoSeparator(o) == IsDefined(o) => \A i \in 1..Len(Get(o)) : Get(o)[i] \notin {",", ";"}

\* C24: at the end of a page whose link header splits on commas into
\* entries of the shape <url>; rel, the next-page discovery yields the URL,
\* without the angle brackets, of the first entry whose trimmed relation is
\* rel=next, or 'no next page' when no entry matches or the header is
\* absent or empty, in which case the loop ends and no further page is
\* requested.
C24_NextPageDiscovery ==
  (strategy = "lines" /\ served # <<>>) =>
    LET last == served[Len(served)]
    IN  NoSeparator(last) =>
          /\ ~isFirstChunk
          /\ url = ClaimedNext(last)
          /\ url = NoPage => Len(TransferRequests) = Len(served) /\ pc = "resolved"

\* The first page named a next cursor, which was requested, and the second
\* named none: the loop ended after two requests.
C24_Witness ==
  /\ strategy = "lines"
  /\ served = <<Some(NextCursor), Undefined>>
  /\ url = NoPage
  /\ pc = "resolved"
  /\ Len(TransferRequests) = 2
  /\ TransferRequests[2].url = NextCursor

\* C25 (step): for every chunk of a page body in row streaming: on the
\* first page the chunk is appended unmodified; on a later page, once the
\* first newline of that page has been seen, the chunk is appended
\* unmodified even when it holds newlines; the chunk that holds the first
\* newline of its page is cut after that newline, whatever the page before
\* had stripped.
C25_Step ==
  (strategy = "lines" /\ chunksSent' # chunksSent) =>
    LET chunk == SubSeq(pageRaw', Len(pageRaw) + 1, Len(pageRaw'))
        sunk == SubSeq(pageSunk', Len(pageSunk) + 1, Len(pageSunk'))
    IN  /\ pageNo = 1 => sunk = chunk
        /\ (pageNo > 1 /\ HasNewline(pageRaw)) => sunk = chunk
        /\ (pageNo > 1 /\ ~HasNewline(pageRaw) /\ HasNewline(chunk)) =>
             sunk = AfterFirstNewline(chunk)
        /\ disk'.content = disk.content \o sunk

\* C25: chunks of the first page are appended to the file unmodified; on a
\* later page, once the first newline has been found and the bytes up to
\* it dropped, every further chunk is forwarded unmodified even if it
\* holds newlines; the stripping state is fresh for each page.
C25_HeaderStripping == [][C25_Step]_vars

\* On the second page the first chunk was cut after its newline and the
\* next chunk, which holds two newlines, went to the file whole.
C25_Witness ==
  /\ strategy = "lines"
  /\ pageNo = 2
  /\ pageRaw = <<NL, "x", "x", NL, "x", NL>>
  /\ pageSunk = <<"x", "x", NL, "x", NL>>
  /\ disk.content = pageSunk

\* The progress notifications dispatched and not yet settled.
InFlight == Len(progress) - settled

\* C26 (state part): at most one progress notification is in flight, and
\* the slot is occupied exactly while one is.
C26_State ==
  /\ InFlight \in {0, 1}
  /\ pendingLogPromise <=> InFlight = 1

\* C26 (step part): a chunk that arrives while a notification is in flight
\* only adds to the counter; a notification is dispatched only by a chunk,
\* and only when the one before has settled; a chunk that finds the slot
\* free dispatches one; a new page leaves the slot as it is.
C26_Step ==
  /\ (downloaded' # downloaded /\ pendingLogPromise) =>
       /\ downloaded' > downloaded
       /\ progress' = progress
       /\ pendingLogPromise'
       /\ settled' = settled
  /\ progress' # progress =>
       /\ ~pendingLogPromise
       /\ InFlight = 0
       /\ downloaded' > downloaded
       /\ Len(progress') = Len(progress) + 1
       /\ SubSeq(progress', 1, Len(progress)) = progress
       /\ pendingLogPromise'
  /\ (downloaded' # downloaded /\ ~pendingLogPromise) => Len(progress') = Len(progress) + 1
  /\ pageNo' # pageNo => UNCHANGED <<pendingLogPromise, progress, settled, downloaded>>

\* C26: in both transfers at most one progress notification is in flight;
\* a chunk arriving while one is outstanding only adds to the byte
\* counter; a new notification is dispatched only by a chunk that arrives
\* after the previous one has settled; in row streaming the slot is shared
\* across pages.
C26_Coalescing == []C26_State /\ [][C26_Step]_vars

\* Row streaming: the notification dispatched by the chunk of the first
\* page is still in flight on the second page, whose chunk was only
\* counted.
C26_Witness ==
  /\ strategy = "lines"
  /\ pageNo = 2
  /\ pageSunk # <<>>
  /\ pendingLogPromise
  /\ settled = 0
  /\ progress = <<Len(disk.content) - Len(pageSunk)>>
  /\ downloaded = Len(disk.content)

\* C27 (state part): in row streaming the counter is 0 before the first
\* page and equals the number of bytes written to the file over all pages;
\* the progress values are non-decreasing.
C27_State ==
  strategy = "lines" =>
    /\ pageNo = 0 => downloaded = 0
    /\ downloaded = Len(disk.content)
    /\ \A i, j \in 1..Len(progress) : i <= j => progress[i] <= progress[j]

\* C27 (step part): the counter changes only when a chunk is handed to the
\* sink, by that chunk's length after header stripping, and never when a
\* page starts or ends; a dispatched progress value is the counter with
\* the dispatching chunk counted.
C27_Step ==
  strategy = "lines" =>
    /\ downloaded' - downloaded = Len(disk'.content) - Len(disk.content)
    /\ chunksSent' # chunksSent => downloaded' - downloaded = Len(pageSunk') - Len(pageSunk)
    /\ chunksSent' = chunksSent => downloaded' = downloaded
    /\ progress' # progress => progress'[Len(progress')] = downloaded'

\* C27: the row-streaming byte counter starts at 0, is never reset between
\* pages, grows only by the length of each chunk handed to the sink (after
\* header stripping) and so equals the bytes written across pages; every
\* dispatched progress value equals the counter at dispatch, and the
\* dispatched values are non-decreasing.
C27_Counter == []C27_State /\ [][C27_Step]_vars

\* Two notifications over two pages: the second counts the bytes of both
\* pages, the second page's chunk without its header line.
C27_Witness ==
  /\ strategy = "lines"
  /\ pageNo = 2
  /\ Len(progress) = 2
  /\ 0 < progress[1]
  /\ progress[1] < progress[2]
  /\ progress[2] = Len(disk.content)
  /\ pageSunk # <<>>
  /\ Len(pageSunk) < Len(pageRaw)

\* C28 (step): in the step in which a progress notification settles,
\* fulfilled or rejected alike, the slot is cleared and the transfer is
\* untouched: no failure is recorded, nothing is logged as an error, and
\* the streams, the file and the counter stay as they are; the next chunk
\* after it dispatches a new notification.
C28_Step ==
  /\ settled' # settled =>
       /\ settled' = settled + 1
       /\ ~pendingLogPromise'
       /\ UNCHANGED <<pc, error, cause, logErrors, returned, requests, disk, unlink, writer, source,
                      downloaded, progress>>
  /\ (downloaded' # downloaded /\ settled > 0 /\ settled = Len(progress)) =>
       /\ Len(progress') = Len(progress) + 1
       /\ pendingLogPromise'

\* C28: a failing progress notification is swallowed: when log.progress
\* rejects the transfer does not fail, the slot is cleared as on success,
\* and a later chunk can dispatch a new notification.
C28_ProgressFailure == [][C28_Step]_vars

\* A notification settled, a later chunk dispatched a second one, and the
\* transfer completed.
C28_Witness ==
  /\ pc = "resolved"
  /\ error = Undefined
  /\ settled >= 1
  /\ Len(progress) = 2
  /\ progress[2] = downloaded

\* C29 (step): in the bulk transfer the call resolves only in the step in
\* which the sink reports finish, after the source has ended; the end of
\* the source leaves the call pending; a settled call stays settled with
\* the same outcome.
C29_Step ==
  strategy = "bulk" =>
    /\ (pc' = "resolved" /\ pc # "resolved") =>
         /\ pc = "bulkBody"
         /\ source = "ended"
         /\ writer = "ending"
         /\ writer' = "closed"
    /\ (source' = "ended" /\ source # "ended") => (pc = "bulkBody" /\ pc' = "bulkBody")
    /\ pc \in {"resolved", "rejected"} => UNCHANGED <<pc, returned, error, cause, logErrors>>

\* C29: downloadResourceFile resolves only after the sink has reported
\* finish, never merely because the source ended, and it settles at most
\* once.
C29_BulkCompletion == [][C29_Step]_vars

\* A bulk transfer with data resolved after the finish of the sink.
C29_Witness ==
  /\ strategy = "bulk"
  /\ pc = "resolved"
  /\ writer = "closed"
  /\ source = "ended"
  /\ disk.content # <<>>
  /\ error = Undefined

\* C30 (step): in the bulk transfer, the step in which the source stream
\* errors destroys the sink, and the step in which the sink errors
\* destroys the source; in both the deletion of the file is pending and
\* the file still there when the call rejects, with the stream's error as
\* the cause the driver wraps.
C30_Step ==
  strategy = "bulk" =>
    /\ (source' = "errored" /\ source # "errored") =>
         /\ writer' = "destroyed"
         /\ unlink' = "pending"
         /\ disk' = disk
         /\ pc' = "rejected"
         /\ IsDefined(cause') /\ Get(cause') \in StreamErrors
         /\ error' = Some(downloadError(Get(cause')))
    /\ (writer' = "errored" /\ writer # "errored") =>
         /\ source' = "destroyed"
         /\ unlink' = "pending"
         /\ disk' = disk
         /\ pc' = "rejected"
         /\ IsDefined(cause') /\ Get(cause') \in SinkErrors
         /\ error' = Some(downloadError(Get(cause')))

\* C30: in the bulk transfer, on a source-stream error the sink is
\* destroyed and on a sink error the source is destroyed; in both cases
\* the deletion of the partial file is started without waiting for it and
\* the call rejects with the underlying error.
C30_BulkFailure == [][C30_Step]_vars

\* A sink error after some data: the source is destroyed, the call is
\* rejected, and the deletion of the partial file is still pending.
C30_Witness ==
  /\ strategy = "bulk"
  /\ pc = "rejected"
  /\ writer = "errored"
  /\ source = "destroyed"
  /\ unlink = "pending"
  /\ disk.exists
  /\ disk.content # <<>>
  /\ IsDefined(cause)
  /\ Get(cause) \in SinkErrors

\* C31 (state part): in row streaming the sink is open as long as the loop
\* is waiting for a page or reading one.
C31_State ==
  (strategy = "lines" /\ pc \in {"pageWait", "pageBody"}) => writer = "open"

\* C31 (step part): the end of a page that names a next cursor leaves the
\* sink open; the sink is ended only in the step in which the loop exits,
\* with the last page's bytes already in the file, and the normal exit
\* always ends it; once ended the sink stays ended, the file receives no
\* further byte and no further page is requested.
C31_Step ==
  strategy = "lines" =>
    /\ (Len(served') > Len(served) /\ pc' = "pageWait") => (writer = "open" /\ writer' = "open")
    /\ (writer' = "ending" /\ writer # "ending") =>
         /\ writer = "open"
         /\ pc = "pageBody"
         /\ pc' = "resolved"
         /\ source' = "ended"
         /\ Len(served') = Len(served) + 1
         /\ disk' = disk
         /\ IsSuffix(pageSunk, disk.content)
    /\ (pc' = "resolved" /\ pc # "resolved") => (writer = "open" /\ writer' = "ending")
    /\ writer \in {"ending", "finished"} =>
         /\ writer' \in {"ending", "finished"}
         /\ disk' = disk
         /\ requests' = requests

\* C31: in row streaming the sink stays open across pages (no page ends
\* it); after the loop exits normally it is finalized exactly once, after
\* the last page's bytes, also when only one page was fetched; no byte is
\* written to the sink after finalization.
C31_SinkFinalization == []C31_State /\ [][C31_Step]_vars

\* One page only was fetched, with data, and the sink was ended and has
\* finished.
C31_Witness ==
  /\ strategy = "lines"
  /\ pc = "resolved"
  /\ pageNo = 1
  /\ served = <<Undefined>>
  /\ writer = "finished"
  /\ disk.content # <<>>

\* C32 (as stated): on both the bulk and the row path exactly one
\* task-start event is emitted before the strategy's first transfer
\* request, and it carries the resolved size as estimated total, or the
\* unknown value when the size is absent.
C32_TaskStart ==
  /\ taskEvents = <<>> => TransferRequests = <<>>
  /\ strategy # "none" =>
       /\ Len(taskEvents) = 1
       /\ taskEvents[1].total = Get(resource).size

\* C32 (amended): on both paths exactly one task-start event is emitted
\* and awaited before the strategy's first transfer request: none is
\* issued while log.task is pending or after it rejected; on the bulk path
\* the event carries the resolved size, or the unknown value when the size
\* is absent or zero; on the row path it always carries the unknown value.
C32_TaskStartAmended ==
  /\ strategy = "none" => (taskEvents = <<>> /\ TransferRequests = <<>>)
  /\ strategy # "none" =>
       LET size == Get(resource).size
       IN  /\ Len(taskEvents) = 1
           /\ taskEvents[1].label = (IF strategy = "bulk" THEN "[file]" ELSE "[lines]")
           /\ taskEvents[1].total =
                (IF strategy = "bulk" /\ IsDefined(size) /\ Get(size) # 0 THEN size ELSE Undefined)
  /\ pc = "taskWait" => TransferRequests = <<>>
  /\ (pc = "rejected" /\ IsDefined(cause) /\ Get(cause) \in LogErrors) => TransferRequests = <<>>

\* Row streaming of a dataset whose size is known: the event carried the
\* unknown value and the first page was requested after it.
C32_Witness ==
  /\ strategy = "lines"
  /\ Get(resource).size = Some(20)
  /\ taskEvents = <<[label |-> "[lines]", total |-> Undefined]>>
  /\ Len(TransferRequests) = 1

\* C33: on the row-streaming path the call returns the filePath only after
\* the sink has reported that all bytes of all pages are flushed to the
\* file.
C33_FlushedBeforeReturn ==
  (strategy = "lines" /\ IsDefined(returned)) => writer = "finished"

\* C34: on every exit of downloadResourceLines, the failure exits
\* included, the sink opened at the start has been closed or ended.
C34_SinkReleased ==
  (strategy = "lines" /\ pc \in {"resolved", "rejected"}) => writer # "open"

\* C35 (step): the end of a page of the row streaming either requests the
\* next page or ends the loop and resolves.
C35_Step ==
  (strategy = "lines" /\ Len(served') > Len(served)) => pc' \in {"pageWait", "resolved"}

\* C35: the next-page discovery is total: for every link header, the ones
\* with an entry without a relation part included, it yields a URL or 'no
\* next page' and never raises, so at the end of a page the pagination
\* loop always either continues or terminates.
C35_DiscoveryTotal == [][C35_Step]_vars

\* C36 (state part): while no notification has settled at most one has
\* been dispatched, and every byte handed to the sink is counted.
C36_State ==
  settled = 0 =>
    /\ Len(progress) <= 1
    /\ pendingLogPromise <=> Len(progress) = 1
    /\ downloaded = Len(disk.content)

\* C36 (step part): with a notification in flight no further one is
\* dispatched, and a chunk is still counted by its length and written.
C36_Step ==
  pendingLogPromise =>
    /\ pendingLogPromise' /\ progress' = progress
    /\ downloaded' - downloaded = Len(disk'.content) - Len(disk.content)
    /\ (chunksSent' # chunksSent /\ strategy = "bulk") => downloaded' > downloaded
    /\ (chunksSent' # chunksSent /\ strategy = "lines") =>
         downloaded' - downloaded = Len(pageSunk') - Len(pageSunk)

\* C36 (progress part): a transfer that no request or link header fails
\* completes with its sink finalized.
C36_Live ==
  <>(\/ pc \in {"rejected", "uncaught"}
     \/ pc = "resolved" /\ writer \in {"finished", "closed"})

\* C36: the transfer does not depend on progress acknowledgements: if a
\* dispatched notification never settles, no further one is dispatched,
\* but chunks are still counted and written, later pages are still
\* fetched, and the transfer still completes and finalizes the sink.
C36_Unacknowledged == []C36_State /\ [][C36_Step]_vars /\ C36_Live

\* A row streaming of two pages completed and flushed with the first
\* page's notification still in flight, the second page's bytes counted.
C36_Witness ==
  /\ strategy = "lines"
  /\ pc = "resolved"
  /\ writer = "finished"
  /\ pageNo >= 2
  /\ pendingLogPromise
  /\ settled = 0
  /\ Len(progress) = 1
  /\ progress[1] < downloaded
  /\ pageSunk # <<>>

\* C37 (step): once a prepare has returned, no step of a second prepare
\* given the returned objects changes the catalogConfig or the secrets, and
\* when the second call resolves it returns what the first returned.
C37_Step ==
  IsDefined(returned) =>
    /\ catalogConfig' = Get(returned).catalogConfig
    /\ secrets' = Get(returned).secrets
    /\ pc' = "resolved" => returned' = returned

\* C37: prepare is idempotent on its own output: called again with the
\* catalogConfig and the secrets of a successful prepare it returns the
\* same catalogConfig and secrets; the mask stays in the config and the
\* stored key stays in the secrets.
C37_Idempotent == [][C37_Step]_vars

\* The second prepare resolved: the mask is still in the config and the key
\* still in the secrets, and the second request carried the key.
C37_Witness ==
  /\ pc = "resolved"
  /\ Len(responses) = 2
  /\ Get(returned).catalogConfig.apiKey = Some(Mask)
  /\ Get(returned).secrets = Some(<<"k", "3">>)
  /\ requests[2] = requests[1]

\* C38 (step): the step of prepare that tests the url has reconciled the
\* key on the caller's objects, also when it rejects for an empty url; the
\* connectivity request carries the reconciled key; a rejection of that
\* request undoes nothing.
C38_Step ==
  LET k == catalogConfig.apiKey
  IN  /\ (pc = "prepare" /\ pc' \in {"rejected", "prepareWait"}) =>
           /\ (NonEmptyKey(k) /\ k # Some(Mask)) =>
                (secrets' = k /\ catalogConfig'.apiKey = Some(Mask))
           /\ AbsentOrEmpty(k) => secrets' = Undefined
           /\ pc' = "prepareWait" => requests'[Len(requests')].apiKey = secrets'
      /\ (pc = "prepareWait" /\ pc' = "rejected") =>
           (catalogConfig' = catalogConfig /\ secrets' = secrets)

\* C38 (state): a rejected prepare leaves no clear key in the config, and
\* no stored key when the field is absent or empty.
C38_State ==
  pc = "rejected" =>
    /\ catalogConfig.apiKey \in {Undefined, Some(<<>>), Some(Mask)}
    /\ AbsentOrEmpty(catalogConfig.apiKey) => secrets = Undefined

\* C38: prepare applies the key reconciliation to the caller's
\* catalogConfig and secrets before the url check and the connectivity
\* check, so a prepare call that rejects has already modified them.
C38_ReconciledBeforeChecks == []C38_State /\ [][C38_Step]_vars

\* A prepare rejected for its empty url, before any request: the key given
\* in the config is in the secrets and the mask in its place.
C38_Witness ==
  /\ pc = "rejected"
  /\ catalogConfig.url = <<>>
  /\ requests = <<>>
  /\ catalogConfig.apiKey = Some(Mask)
  /\ secrets = Some(<<"k", "3">>)

====
